---- MODULE Spec2Model ----
(***************************************************************************)
(* Helios: an 8-bit console emulator (6502-like CPU core, flat 64 KiB      *)
(* memory) and its two-pass assembler.  The model follows main.rs: an      *)
(* input is either a ROM image or an assembly source; a source is          *)
(* compiled (pass one, pass two, resolution), the image is loaded at       *)
(* 0x0000 and the CPU steps until it halts.                                *)
(*                                                                         *)
(* Text is modelled at character level: a string is a sequence of          *)
(* one-character strings, a source is a sequence of lines.                 *)
(***************************************************************************)
EXTENDS Integers, Sequences, FiniteSets, TLC

VARIABLES
    input,            \* what main was given: a ROM image or an assembly source
    build,            \* build profile: TRUE when integer overflow checks are on
    phase,            \* position of main / compile / the CPU loop
    line_num,         \* compile: index of the line the current pass is at (0-based count done)
    labels,           \* compile: label table, name -> address
    current_address,  \* compile: the running address counter
    binary,           \* compile: output byte vector
    unresolved_jumps, \* compile: list of <<position, label, size>>
    result,           \* compile: Ok / Err result
    cpu,              \* CPU registers, flags, cycle counter, halted
    memory,           \* Memory: data and display_buffer
    panicked,         \* the host process aborted on a Rust panic
    written,          \* history: address -> last byte passed to CPU::write
    prev,             \* history: the last call on the CPU and the state before it
    audio,            \* the audio watcher: Audio's channels, last_buffer and sink
    sync              \* the two mutexes, each thread's position, the step in progress

vars == <<input, build, phase, line_num, labels, current_address, binary,
          unresolved_jumps, result, cpu, memory, panicked, written, prev, audio,
          sync>>

(***************************************************************************)
(* Fixed-width integer helpers.                                            *)
(***************************************************************************)
U8 == 256
U16 == 65536

RECURSIVE BitAnd(_, _)
BitAnd(p, q) ==
    IF p = 0 \/ q = 0 THEN 0
    ELSE (p % 2) * (q % 2) + 2 * BitAnd(p \div 2, q \div 2)

RECURSIVE BitOr(_, _)
BitOr(p, q) ==
    IF p = 0 THEN q
    ELSE IF q = 0 THEN p
    ELSE (IF p % 2 = 1 \/ q % 2 = 1 THEN 1 ELSE 0) + 2 * BitOr(p \div 2, q \div 2)

RECURSIVE BitXor(_, _)
BitXor(p, q) ==
    IF p = 0 THEN q
    ELSE IF q = 0 THEN p
    ELSE ((p + q) % 2) + 2 * BitXor(p \div 2, q \div 2)

\* value as u8 / as u16 (truncating casts; two's complement for negatives)
AsU8(v) == v % U8
AsU16(v) == v % U16
\* (b as i8) as a mathematical integer
AsI8(b) == IF b >= 128 THEN b - 256 ELSE b

(***************************************************************************)
(* memory.rs                                                               *)
(***************************************************************************)
ROM_START == 0
ROM_SIZE == 32768
DISPLAY_START == 61440
DISPLAY_SIZE == 3072
AUDIO_START == 64512
AUDIO_SIZE == 256
MEMORY_SIZE == 65536

\* The arrays are zero-initialised; an array is kept as the function from the
\* indices holding a non-zero byte to that byte.
ZeroArray == [i \in {} |-> 0]
ArrayGet(arr, i) == IF i \in DOMAIN arr THEN arr[i] ELSE 0
ArraySet(arr, i, v) ==
    IF v = 0 THEN [k \in DOMAIN arr \ {i} |-> arr[k]]
    ELSE [k \in DOMAIN arr \cup {i} |-> IF k = i THEN v ELSE arr[k]]

Memory_new == [data |-> ZeroArray, display_buffer |-> ZeroArray]

Memory_read(mem, address) == ArrayGet(mem.data, address)

\* A faulty write: a display-region byte goes to the double buffer only and
\* reaches the primary store at the next swap.
Memory_write_buffered(mem, address, value) ==
    IF address >= DISPLAY_START /\ address < DISPLAY_START + DISPLAY_SIZE
    THEN [mem EXCEPT !.display_buffer = ArraySet(@, address - DISPLAY_START, value)]
    ELSE [mem EXCEPT !.data = ArraySet(@, address, value)]

\* A faulty write: the double buffer is not updated.
Memory_write_unmirrored(mem, address, value) ==
    [mem EXCEPT !.data = ArraySet(@, address, value)]

Memory_write(mem, address, value) ==
    LET stored == [mem EXCEPT !.data = ArraySet(@, address, value)]
    IN  IF address >= DISPLAY_START /\ address < DISPLAY_START + DISPLAY_SIZE
        THEN [stored EXCEPT !.display_buffer =
                                ArraySet(@, address - DISPLAY_START, value)]
        ELSE stored

\* the loop over program.iter().enumerate(), which stores byte i while
\* i < ROM_SIZE and breaks at the first i beyond; Copied is the store after
\* its first n iterations have run
Min(a, b) == IF a <= b THEN a ELSE b
Copied(data, program, n) ==
    [k \in {a \in DOMAIN data : ~(a >= ROM_START /\ a < ROM_START + n)}
              \cup {ROM_START + i : i \in {j \in 0..(n - 1) : program[j + 1] # 0}} |->
        IF k >= ROM_START /\ k < ROM_START + n THEN program[k - ROM_START + 1]
        ELSE data[k]]

\* A faulty load: the loop without its test of i against ROM_SIZE.
Memory_load_program_unbounded(mem, program) ==
    [mem EXCEPT !.data = Copied(@, program, Len(program))]

Memory_load_program(mem, program) ==
    [mem EXCEPT !.data = Copied(@, program, Min(Len(program), ROM_SIZE))]

\* get_display_buffer: the display region of the primary store, by offset
Memory_get_display_buffer(mem) ==
    [i \in {a - DISPLAY_START :
                a \in {k \in DOMAIN mem.data :
                           k >= DISPLAY_START /\ k < DISPLAY_START + DISPLAY_SIZE}}
       |-> mem.data[DISPLAY_START + i]]

Memory_swap_display_buffer(mem) ==
    [mem EXCEPT !.data =
        [k \in {a \in DOMAIN mem.data :
                    a < DISPLAY_START \/ a >= DISPLAY_START + DISPLAY_SIZE}
               \cup {DISPLAY_START + o : o \in DOMAIN mem.display_buffer}
           |-> IF k >= DISPLAY_START /\ k < DISPLAY_START + DISPLAY_SIZE
               THEN mem.display_buffer[k - DISPLAY_START]
               ELSE mem.data[k]]]

(***************************************************************************)
(* cpu.rs.  A machine m is [cpu, memory, written, panicked, log]: the CPU  *)
(* struct, the Memory behind its Arc<Mutex<>>, the history of CPU::write   *)
(* calls, whether a panic has unwound the CPU thread, and the writes of    *)
(* the call in progress.                                                   *)
(***************************************************************************)
FLAG_ZERO == 1
FLAG_NEGATIVE == 2
FLAG_CARRY == 4
FLAG_OVERFLOW == 8

CPU_new == [a |-> 0, x |-> 0, y |-> 0, pc |-> 0, sp |-> 255, status |-> 0,
            cycles |-> 0, halted |-> FALSE]

\* A faulty reset: registers, SP and PC only; flags and halted are kept.
CPU_reset_soft(c) == [c EXCEPT !.a = 0, !.x = 0, !.y = 0, !.pc = 0, !.sp = 255,
                               !.cycles = 0]

CPU_reset(c) == [c EXCEPT !.a = 0, !.x = 0, !.y = 0, !.pc = 0, !.sp = 255,
                          !.status = 0, !.cycles = 0, !.halted = FALSE]

\* fetch: the byte at pc, and the machine with pc advanced (wrapping)
FetchValue(m) == Memory_read(m.memory, m.cpu.pc)
FetchNext(m) == [m EXCEPT !.cpu.pc = (@ + 1) % U16]

CPU_read(m, address) == Memory_read(m.memory, address)

CPU_write(m, address, value) ==
    [m EXCEPT !.memory = Memory_write(@, address, value),
              !.log = Append(@, <<address, value>>),
              !.written = [k \in DOMAIN @ \cup {address} |->
                              IF k = address THEN value ELSE @[k]]]

\* A faulty push: SP is decremented before the store.
CPU_push_predecrement(m, value) ==
    LET address == BitOr(256, (m.cpu.sp - 1) % U8)
    IN  [CPU_write(m, address, value) EXCEPT !.cpu.sp = (@ - 1) % U8]

CPU_push(m, value) ==
    LET address == BitOr(256, m.cpu.sp)
    IN  [CPU_write(m, address, value) EXCEPT !.cpu.sp = (@ - 1) % U8]

\* pop: the machine with sp advanced, and the byte then read at 0x0100 | sp
PopNext(m) == [m EXCEPT !.cpu.sp = (@ + 1) % U8]
PopValue(m) == CPU_read(PopNext(m), BitOr(256, PopNext(m).cpu.sp))

set_flag(m, flag, value) ==
    IF value THEN [m EXCEPT !.cpu.status = BitOr(@, flag)]
    ELSE [m EXCEPT !.cpu.status = BitAnd(@, 255 - flag)]

get_flag(m, flag) == BitAnd(m.cpu.status, flag) # 0

\* A faulty flag update: Z and N are set when they apply and never cleared.
update_flags_sticky(m, value) ==
    [m EXCEPT !.cpu.status =
        BitOr(@, BitOr(IF value = 0 THEN FLAG_ZERO ELSE 0,
                       IF BitAnd(value, 128) # 0 THEN FLAG_NEGATIVE ELSE 0))]

update_zero_and_negative_flags(m, value) ==
    set_flag(set_flag(m, FLAG_ZERO, value = 0),
             FLAG_NEGATIVE, BitAnd(value, 128) # 0)

\* A faulty halt: the status register is cleared as well.
halt_clearing(m) == [m EXCEPT !.cpu.halted = TRUE, !.cpu.status = 0]

halt(m) == [m EXCEPT !.cpu.halted = TRUE]

\* A u16 subtraction / addition written with the plain operator: it panics
\* when overflow checks are on and wraps otherwise.
Panic(m) == [m EXCEPT !.panicked = TRUE]

(***************************************************************************)
(* isa.rs                                                                  *)
(***************************************************************************)
OP_LDA_IMM == 169
OP_LDA_ZP == 165
OP_LDA_ZPX == 181
OP_LDA_ABS == 173
OP_LDX_IMM == 162
OP_LDY_IMM == 160
OP_STA_ZP == 133
OP_STA_ZPX == 149
OP_STA_ABS == 141
OP_STX_ZP == 134
OP_STY_ZP == 132
OP_TAX == 170
OP_TAY == 168
OP_TXA == 138
OP_TYA == 152
OP_ADC_IMM == 105
OP_SBC_IMM == 233
OP_AND_IMM == 41
OP_ORA_IMM == 9
OP_EOR_IMM == 73
OP_INC_ZP == 230
OP_DEC_ZP == 198
OP_INX == 232
OP_INY == 200
OP_DEX == 202
OP_DEY == 136
OP_CMP_IMM == 201
OP_CPX_IMM == 224
OP_CPY_IMM == 192
OP_JMP_ABS == 76
OP_JSR_ABS == 32
OP_RTS == 96
OP_BEQ == 240
OP_BNE == 208
OP_BCS == 176
OP_BCC == 144
OP_BMI == 48
OP_BPL == 16
OP_NOP == 234
OP_BRK == 0
OP_HLT == 255
OP_DBG == 222
OP_SND == 66

\* The opcodes execute's match has an arm for.
DecodedOpcodes ==
    {OP_LDA_IMM, OP_LDA_ZP, OP_LDA_ZPX, OP_LDA_ABS, OP_LDX_IMM, OP_LDY_IMM,
     OP_STA_ZP, OP_STA_ZPX, OP_STA_ABS, OP_STX_ZP, OP_STY_ZP,
     OP_TAX, OP_TAY, OP_TXA, OP_TYA,
     OP_ADC_IMM, OP_SBC_IMM, OP_AND_IMM, OP_ORA_IMM, OP_EOR_IMM,
     OP_INC_ZP, OP_DEC_ZP, OP_INX, OP_INY, OP_DEX, OP_DEY,
     OP_CMP_IMM, OP_CPX_IMM, OP_CPY_IMM,
     OP_JMP_ABS, OP_JSR_ABS, OP_RTS,
     OP_BEQ, OP_BNE, OP_BCS, OP_BCC, OP_BMI, OP_BPL,
     OP_NOP, OP_BRK, OP_DBG, OP_SND, OP_HLT}

\* let low = fetch; let high = fetch; (high << 8) | low
AbsOperand(m) == BitOr(FetchValue(FetchNext(m)) * 256, FetchValue(m))
AbsNext(m) == FetchNext(FetchNext(m))

\* register := value, then Z/N from the register
LoadReg(m, reg, value) ==
    update_zero_and_negative_flags(
        IF reg = "a" THEN [m EXCEPT !.cpu.a = value]
        ELSE IF reg = "x" THEN [m EXCEPT !.cpu.x = value]
        ELSE [m EXCEPT !.cpu.y = value],
        value)

\* A faulty ADC: the carry-in is ignored.
exec_adc_no_carry_in(m) ==
    LET value == FetchValue(m)
        m1 == FetchNext(m)
        res == m1.cpu.a + value
        overflow == BitAnd(BitAnd(BitXor(m1.cpu.a, AsU8(res)),
                                  BitXor(value, AsU8(res))), 128) # 0
        m2 == [m1 EXCEPT !.cpu.a = AsU8(res)]
        m3 == set_flag(m2, FLAG_CARRY, res > 255)
        m4 == set_flag(m3, FLAG_OVERFLOW, overflow)
    IN  update_zero_and_negative_flags(m4, m4.cpu.a)

exec_adc(m) ==
    LET value == FetchValue(m)
        m1 == FetchNext(m)
        carry == IF get_flag(m1, FLAG_CARRY) THEN 1 ELSE 0
        res == m1.cpu.a + value + carry
        overflow == BitAnd(BitAnd(BitXor(m1.cpu.a, AsU8(res)),
                                  BitXor(value, AsU8(res))), 128) # 0
        m2 == [m1 EXCEPT !.cpu.a = AsU8(res)]
        m3 == set_flag(m2, FLAG_CARRY, res > 255)
        m4 == set_flag(m3, FLAG_OVERFLOW, overflow)
    IN  update_zero_and_negative_flags(m4, m4.cpu.a)

\* A faulty SBC: V is computed by ADC's formula.
exec_sbc_adc_overflow(m) ==
    LET value == FetchValue(m)
        m1 == FetchNext(m)
        carry == IF get_flag(m1, FLAG_CARRY) THEN 0 ELSE 1
        res == m1.cpu.a - value - carry
        overflow == BitAnd(BitAnd(BitXor(m1.cpu.a, AsU8(res)),
                                  BitXor(value, AsU8(res))), 128) # 0
        m2 == [m1 EXCEPT !.cpu.a = AsU8(res)]
        m3 == set_flag(m2, FLAG_CARRY, res >= 0)
        m4 == set_flag(m3, FLAG_OVERFLOW, overflow)
    IN  update_zero_and_negative_flags(m4, m4.cpu.a)

exec_sbc(m) ==
    LET value == FetchValue(m)
        m1 == FetchNext(m)
        carry == IF get_flag(m1, FLAG_CARRY) THEN 0 ELSE 1
        res == m1.cpu.a - value - carry
        overflow == BitAnd(BitAnd(BitXor(m1.cpu.a, value),
                                  BitXor(m1.cpu.a, AsU8(res))), 128) # 0
        m2 == [m1 EXCEPT !.cpu.a = AsU8(res)]
        m3 == set_flag(m2, FLAG_CARRY, res >= 0)
        m4 == set_flag(m3, FLAG_OVERFLOW, overflow)
    IN  update_zero_and_negative_flags(m4, m4.cpu.a)

\* A faulty compare: the difference is also stored in A, as SBC would.
exec_compare_storing(m, reg) ==
    LET value == FetchValue(m)
        m1 == FetchNext(m)
        res == AsU8(reg - value)
    IN  update_zero_and_negative_flags(
            set_flag([m1 EXCEPT !.cpu.a = res], FLAG_CARRY, reg >= value), res)

\* CMP / CPX / CPY against an immediate
exec_compare(m, reg) ==
    LET value == FetchValue(m)
        m1 == FetchNext(m)
        res == AsU8(reg - value)
    IN  update_zero_and_negative_flags(
            set_flag(m1, FLAG_CARRY, reg >= value), res)

\* INC / DEC of a zero-page byte (delta is +1 or -1)
exec_incdec_zp(m, delta) ==
    LET address == FetchValue(m)
        m1 == FetchNext(m)
        value == AsU8(CPU_read(m1, address) + delta)
    IN  update_zero_and_negative_flags(CPU_write(m1, address, value), value)

\* A faulty branch: the offset byte is added zero-extended, so a taken branch
\* can only go forward.
exec_branch_unsigned(m, taken) ==
    LET offset == FetchValue(m)
        m1 == FetchNext(m)
    IN  IF taken THEN [m1 EXCEPT !.cpu.pc = AsU16(@ + offset)]
        ELSE m1

\* the six branches: fetch the offset, add it (sign-extended) when taken
exec_branch(m, taken) ==
    LET offset == AsI8(FetchValue(m))
        m1 == FetchNext(m)
    IN  IF taken THEN [m1 EXCEPT !.cpu.pc = AsU16(@ + AsU16(offset))]
        ELSE m1

\* A faulty JSR: the low byte of the return address is pushed first.
exec_jsr_low_first(m, checks) ==
    LET target == AbsOperand(m)
        m1 == AbsNext(m)
    IN  IF m1.cpu.pc = 0 /\ checks THEN Panic(m1)
        ELSE LET return_address == AsU16(m1.cpu.pc - 1)
                 m2 == CPU_push(m1, AsU8(return_address))
                 m3 == CPU_push(m2, return_address \div 256)
             IN  [m3 EXCEPT !.cpu.pc = target]

exec_jsr(m, checks) ==
    LET target == AbsOperand(m)
        m1 == AbsNext(m)
    IN  IF m1.cpu.pc = 0 /\ checks THEN Panic(m1)
        ELSE LET return_address == AsU16(m1.cpu.pc - 1)
                 m2 == CPU_push(m1, return_address \div 256)
                 m3 == CPU_push(m2, AsU8(return_address))
             IN  [m3 EXCEPT !.cpu.pc = target]

exec_rts(m, checks) ==
    LET low == PopValue(m)
        m1 == PopNext(m)
        high == PopValue(m1)
        m2 == PopNext(m1)
        address == BitOr(high * 256, low)
    IN  IF address = U16 - 1 /\ checks THEN Panic(m2)
        ELSE [m2 EXCEPT !.cpu.pc = AsU16(address + 1)]

\* A faulty SND: the register is selected by the note bits alone.
exec_snd_by_note(m) ==
    LET sound_data == FetchValue(m)
        m1 == FetchNext(m)
        audio_address == BitOr(AUDIO_START, BitAnd(sound_data, 63))
    IN  CPU_write(m1, audio_address, sound_data)

exec_snd(m) ==
    LET sound_data == FetchValue(m)
        m1 == FetchNext(m)
        audio_address == BitOr(AUDIO_START, BitAnd(sound_data, 255))
    IN  CPU_write(m1, audio_address, sound_data)

exec_unknown(m, checks) ==
    IF m.cpu.pc = 0 /\ checks THEN Panic(m) ELSE halt(m)

execute(m, opcode, checks) ==
    CASE opcode = OP_LDA_IMM -> LoadReg(FetchNext(m), "a", FetchValue(m))
      [] opcode = OP_LDA_ZP ->
            LoadReg(FetchNext(m), "a", CPU_read(m, FetchValue(m)))
      [] opcode = OP_LDA_ZPX ->
            LoadReg(FetchNext(m), "a",
                    CPU_read(m, AsU8(FetchValue(m) + m.cpu.x)))
      [] opcode = OP_LDA_ABS ->
            LoadReg(AbsNext(m), "a", CPU_read(m, AbsOperand(m)))
      [] opcode = OP_LDX_IMM -> LoadReg(FetchNext(m), "x", FetchValue(m))
      [] opcode = OP_LDY_IMM -> LoadReg(FetchNext(m), "y", FetchValue(m))
      [] opcode = OP_STA_ZP -> CPU_write(FetchNext(m), FetchValue(m), m.cpu.a)
      [] opcode = OP_STA_ZPX ->
            CPU_write(FetchNext(m), AsU8(FetchValue(m) + m.cpu.x), m.cpu.a)
      [] opcode = OP_STA_ABS -> CPU_write(AbsNext(m), AbsOperand(m), m.cpu.a)
      [] opcode = OP_STX_ZP -> CPU_write(FetchNext(m), FetchValue(m), m.cpu.x)
      [] opcode = OP_STY_ZP -> CPU_write(FetchNext(m), FetchValue(m), m.cpu.y)
      [] opcode = OP_TAX -> LoadReg(m, "x", m.cpu.a)
      [] opcode = OP_TAY -> LoadReg(m, "y", m.cpu.a)
      [] opcode = OP_TXA -> LoadReg(m, "a", m.cpu.x)
      [] opcode = OP_TYA -> LoadReg(m, "a", m.cpu.y)
      [] opcode = OP_ADC_IMM -> exec_adc(m)
      [] opcode = OP_SBC_IMM -> exec_sbc(m)
      [] opcode = OP_AND_IMM ->
            LoadReg(FetchNext(m), "a", BitAnd(m.cpu.a, FetchValue(m)))
      [] opcode = OP_ORA_IMM ->
            LoadReg(FetchNext(m), "a", BitOr(m.cpu.a, FetchValue(m)))
      [] opcode = OP_EOR_IMM ->
            LoadReg(FetchNext(m), "a", BitXor(m.cpu.a, FetchValue(m)))
      [] opcode = OP_INC_ZP -> exec_incdec_zp(m, 1)
      [] opcode = OP_DEC_ZP -> exec_incdec_zp(m, -1)
      [] opcode = OP_INX -> LoadReg(m, "x", AsU8(m.cpu.x + 1))
      [] opcode = OP_INY -> LoadReg(m, "y", AsU8(m.cpu.y + 1))
      [] opcode = OP_DEX -> LoadReg(m, "x", AsU8(m.cpu.x - 1))
      [] opcode = OP_DEY -> LoadReg(m, "y", AsU8(m.cpu.y - 1))
      [] opcode = OP_CMP_IMM -> exec_compare(m, m.cpu.a)
      [] opcode = OP_CPX_IMM -> exec_compare(m, m.cpu.x)
      [] opcode = OP_CPY_IMM -> exec_compare(m, m.cpu.y)
      [] opcode = OP_JMP_ABS -> [AbsNext(m) EXCEPT !.cpu.pc = AbsOperand(m)]
      [] opcode = OP_JSR_ABS -> exec_jsr(m, checks)
      [] opcode = OP_RTS -> exec_rts(m, checks)
      [] opcode = OP_BEQ -> exec_branch(m, get_flag(m, FLAG_ZERO))
      [] opcode = OP_BNE -> exec_branch(m, ~get_flag(m, FLAG_ZERO))
      [] opcode = OP_BCS -> exec_branch(m, get_flag(m, FLAG_CARRY))
      [] opcode = OP_BCC -> exec_branch(m, ~get_flag(m, FLAG_CARRY))
      [] opcode = OP_BMI -> exec_branch(m, get_flag(m, FLAG_NEGATIVE))
      [] opcode = OP_BPL -> exec_branch(m, ~get_flag(m, FLAG_NEGATIVE))
      [] opcode = OP_NOP -> m
      [] opcode = OP_BRK -> FetchNext(m)
      [] opcode = OP_DBG -> FetchNext(m)
      [] opcode = OP_SND -> exec_snd(m)
      [] opcode = OP_HLT -> halt(m)
      [] OTHER -> exec_unknown(m, checks)

\* A faulty step: the halted flag is not consulted.
CPU_step_unguarded(m, checks) ==
    LET Count(m1) == IF m1.panicked THEN m1 ELSE [m1 EXCEPT !.cpu.cycles = @ + 1]
    IN  Count(execute(FetchNext(m), FetchValue(m), checks))

\* CPU::step: no-op once halted; otherwise fetch, execute, count one cycle
CPU_step(m, checks) ==
    IF m.cpu.halted THEN m
    ELSE LET m1 == execute(FetchNext(m), FetchValue(m), checks)
         IN  IF m1.panicked THEN m1
             ELSE [m1 EXCEPT !.cpu.cycles = @ + 1]

(***************************************************************************)
(* audio.rs.  A channel's frequency is kept as the MIDI note number n it   *)
(* is computed from (440 * 2^((n - 69) / 12) Hz); the sink is kept as the  *)
(* channels of the source it is playing and the number of times it was     *)
(* cleared and restarted.  handled is history: every <<offset, byte>> the  *)
(* watcher has found changed.                                              *)
(***************************************************************************)
NUM_CHANNELS == 4

Channel_new(channel_type) ==
    [channel_type |-> channel_type, frequency |-> 69, enabled |-> FALSE]

set_midi_note(channel, note) ==
    [channel EXCEPT !.frequency = note + 21, !.enabled = TRUE]

Audio_new ==
    LET channels == <<Channel_new("Sine"), Channel_new("Square"),
                      Channel_new("Triangle"), Channel_new("Noise")>>
    IN  [channels |-> channels, last_buffer |-> ZeroArray,
         sink |-> channels, restarts |-> 0, handled |-> {}]

Memory_get_audio_buffer(mem) ==
    [i \in {a - AUDIO_START : a \in {k \in DOMAIN mem.data :
                                         k >= AUDIO_START /\ k < AUDIO_START + AUDIO_SIZE}}
       |-> mem.data[AUDIO_START + i]]

\* Audio::update: every byte that differs from last_buffer is recorded and
\* decoded as CCNNNNNN, in ascending order of offset (the highest changed
\* offset naming a channel sets its note); the sink restarts if any differed
Audio_update(au, mem) ==
    LET Apply(audio_buffer, changed) ==
            LET Hits(c) == {i \in changed :
                               BitAnd(ArrayGet(audio_buffer, i) \div 64, 3) = c}
                Last(S) == CHOOSE i \in S : \A j \in S : j <= i
                channels ==
                    [c \in 1..NUM_CHANNELS |->
                        IF Hits(c - 1) = {} THEN au.channels[c]
                        ELSE set_midi_note(au.channels[c],
                                 BitAnd(ArrayGet(audio_buffer, Last(Hits(c - 1))), 63))]
            IN  IF changed = {} THEN au
                ELSE [au EXCEPT !.channels = channels, !.last_buffer = audio_buffer,
                                !.sink = channels, !.restarts = @ + 1,
                                !.handled = @ \cup {<<i, ArrayGet(audio_buffer, i)>> :
                                                        i \in changed}]
    IN  Apply(Memory_get_audio_buffer(mem),
              {i \in DOMAIN Memory_get_audio_buffer(mem) \cup DOMAIN au.last_buffer :
                   ArrayGet(Memory_get_audio_buffer(mem), i) # ArrayGet(au.last_buffer, i)})

(***************************************************************************)
(* Text (str) operations used by compiler.rs.  A string is a sequence of   *)
(* one-character strings over ASCII.                                       *)
(***************************************************************************)
Whitespace == {" ", "\t"}
LowerCase == <<"a", "b", "c", "d", "e", "f", "g", "h", "i", "j", "k", "l", "m",
               "n", "o", "p", "q", "r", "s", "t", "u", "v", "w", "x", "y", "z">>
UpperCase == <<"A", "B", "C", "D", "E", "F", "G", "H", "I", "J", "K", "L", "M",
               "N", "O", "P", "Q", "R", "S", "T", "U", "V", "W", "X", "Y", "Z">>
DigitChars == <<"0", "1", "2", "3", "4", "5", "6", "7", "8", "9",
                "A", "B", "C", "D", "E", "F">>

UpperChar(ch) ==
    IF \E i \in 1..Len(LowerCase) : LowerCase[i] = ch
    THEN UpperCase[CHOOSE i \in 1..Len(LowerCase) : LowerCase[i] = ch]
    ELSE ch

to_uppercase(s) == [i \in 1..Len(s) |-> UpperChar(s[i])]

starts_with(s, p) == Len(s) >= Len(p) /\ SubSeq(s, 1, Len(p)) = p
ends_with(s, p) == Len(s) >= Len(p) /\ SubSeq(s, Len(s) - Len(p) + 1, Len(s)) = p
contains(s, ch) == \E i \in 1..Len(s) : s[i] = ch

RECURSIVE trim_start(_)
trim_start(s) ==
    IF s # <<>> /\ Head(s) \in Whitespace THEN trim_start(Tail(s)) ELSE s

RECURSIVE trim_end(_)
trim_end(s) ==
    IF s # <<>> /\ s[Len(s)] \in Whitespace
    THEN trim_end(SubSeq(s, 1, Len(s) - 1)) ELSE s

trim(s) == trim_end(trim_start(s))

\* str::split on a set of separator characters: every piece, empty ones too
RECURSIVE split_acc(_, _, _, _)
split_acc(s, seps, cur, out) ==
    IF s = <<>> THEN Append(out, cur)
    ELSE IF Head(s) \in seps THEN split_acc(Tail(s), seps, <<>>, Append(out, cur))
    ELSE split_acc(Tail(s), seps, Append(cur, Head(s)), out)

split(s, seps) == split_acc(s, seps, <<>>, <<>>)

\* str::split_whitespace: the non-empty pieces between runs of whitespace
split_whitespace(s) == SelectSeq(split(s, Whitespace), LAMBDA t : t # <<>>)

\* digit value of ch in the given radix, or -1
DigitValue(ch, radix) ==
    LET u == UpperChar(ch)
    IN  IF \E i \in 1..radix : DigitChars[i] = u
        THEN (CHOOSE i \in 1..radix : DigitChars[i] = u) - 1
        ELSE -1

\* u16::from_str_radix / str::parse::<u16>: the value, or -1 for Err
\* (empty, a lone sign, a character that is no digit, or a value over u16::MAX)
RECURSIVE digits_value(_, _, _)
digits_value(s, radix, acc) ==
    IF s = <<>> THEN acc
    ELSE IF DigitValue(Head(s), radix) < 0 THEN -1
    ELSE IF acc * radix + DigitValue(Head(s), radix) >= U16 THEN -1
    ELSE digits_value(Tail(s), radix, acc * radix + DigitValue(Head(s), radix))

from_str_radix(s, radix) ==
    IF s = <<>> THEN -1
    ELSE IF Head(s) \in {"+", "-"} /\ Len(s) = 1 THEN -1
    ELSE IF Head(s) = "+" THEN digits_value(Tail(s), radix, 0)
    ELSE digits_value(s, radix, 0)

(***************************************************************************)
(* compiler.rs: results.  An Err is the formatted message: the line number *)
(* of its "Line <n>: " prefix (NoLine when the message has none), the      *)
(* message text and the value formatted into it.                           *)
(***************************************************************************)
NoLine == 0
Err(line, msg, arg) == [line |-> line, msg |-> msg, arg |-> arg]
NoErr == Err(NoLine, "", <<>>)

\* Result of an emitting function: the grown binary and unresolved list, or Err
Emitted(bin, unres) == [ok |-> TRUE, binary |-> bin, unresolved |-> unres, err |-> NoErr]
Failed(e) == [ok |-> FALSE, binary |-> <<>>, unresolved |-> <<>>, err |-> e]

parse_value(value_str, line) ==
    IF starts_with(value_str, <<"$">>)
    THEN LET v == from_str_radix(Tail(value_str), 16)
         IN  IF v < 0 THEN [ok |-> FALSE, value |-> 0,
                            err |-> Err(line, "Invalid hexadecimal value", value_str)]
             ELSE [ok |-> TRUE, value |-> v, err |-> NoErr]
    ELSE IF starts_with(value_str, <<"%">>)
    THEN LET v == from_str_radix(Tail(value_str), 2)
         IN  IF v < 0 THEN [ok |-> FALSE, value |-> 0,
                            err |-> Err(line, "Invalid binary value", value_str)]
             ELSE [ok |-> TRUE, value |-> v, err |-> NoErr]
    ELSE LET v == from_str_radix(value_str, 10)
         IN  IF v < 0 THEN [ok |-> FALSE, value |-> 0,
                            err |-> Err(line, "Invalid decimal value", value_str)]
             ELSE [ok |-> TRUE, value |-> v, err |-> NoErr]

parse_and_push_value(bin, unres, value_str, num_bytes, line) ==
    LET Push(p) ==
            IF ~p.ok THEN Failed(p.err)
            ELSE IF num_bytes = 1
            THEN IF p.value > 255
                 THEN Failed(Err(line, "Value is too large for a single byte", p.value))
                 ELSE Emitted(Append(bin, BitAnd(p.value, 255)), unres)
            ELSE Emitted(bin \o <<BitAnd(p.value, 255), p.value \div 256>>, unres)
    IN  Push(parse_value(value_str, line))

\* if let Some(&address) = labels.get(name) { push low, high }
\* else { unresolved_jumps.push((binary.len(), name, 2)); push 0, 0 }
push_label(bin, unres, name, labs) ==
    IF name \in DOMAIN labs
    THEN Emitted(bin \o <<BitAnd(labs[name], 255), labs[name] \div 256>>, unres)
    ELSE Emitted(bin \o <<0, 0>>, Append(unres, <<Len(bin), name, 2>>))

\* the same with a one-byte operand: push low / record size 1 and push 0
push_label_byte(bin, unres, name, labs) ==
    IF name \in DOMAIN labs
    THEN Emitted(Append(bin, BitAnd(labs[name], 255)), unres)
    ELSE Emitted(Append(bin, 0), Append(unres, <<Len(bin), name, 1>>))

\* let value = parse_value(operand)?;
\* if value <= 0xFF { push zp, value } else { push abs, low, high }
push_direct(bin, unres, operand, zp, abs, line) ==
    LET Push(p) ==
            IF ~p.ok THEN Failed(p.err)
            ELSE IF p.value <= 255 THEN Emitted(bin \o <<zp, p.value>>, unres)
            ELSE Emitted(bin \o <<abs, BitAnd(p.value, 255), p.value \div 256>>, unres)
    IN  Push(parse_value(operand, line))

(***************************************************************************)
(* compiler.rs: the per-mnemonic emitters.  Functions whose bodies differ  *)
(* only in their opcode bytes share one operator taking the opcodes.       *)
(***************************************************************************)
Comma == {","}

\* the indexed-operand prologue: parts, addr_part, index_part, addr_value
IndexParts(operand) == split(operand, Comma)
IndexAddr(operand) == trim(IndexParts(operand)[1])
IndexReg(operand) == to_uppercase(trim(IndexParts(operand)[2]))
IndexIsHex(operand) == starts_with(IndexAddr(operand), <<"$">>)

\* (<v>,X) and (<v>),Y : &operand[1..operand.len()-3]
IndirectPart(operand) == SubSeq(operand, 2, Len(operand) - 3)
IsIndirectX(operand) == starts_with(operand, <<"(">>) /\ ends_with(operand, <<",", "X", ")">>)
IsIndirectY(operand) == starts_with(operand, <<"(">>) /\ ends_with(operand, <<")", ",", "Y">>)

\* compile_lda / adc / sbc / and / ora / eor / cmp
\* ops = [imm, indx, indy, zpx, absx, absy, zp, abs]
compile_alu(ops, bin, unres, operand, labs, line) ==
    IF starts_with(operand, <<"#">>)
    THEN parse_and_push_value(Append(bin, ops.imm), unres, Tail(operand), 1, line)
    ELSE IF IsIndirectX(operand)
    THEN parse_and_push_value(Append(bin, ops.indx), unres, IndirectPart(operand), 1, line)
    ELSE IF IsIndirectY(operand)
    THEN parse_and_push_value(Append(bin, ops.indy), unres, IndirectPart(operand), 1, line)
    ELSE IF contains(operand, ",")
    THEN IF Len(IndexParts(operand)) # 2
         THEN Failed(Err(line, "Invalid indexed addressing format", operand))
         ELSE LET Indexed(addr_part, index_part, p) ==
                     IF IndexIsHex(operand) /\ ~p.ok THEN Failed(p.err)
                     ELSE IF index_part = <<"X">>
                     THEN IF IndexIsHex(operand) /\ p.value <= 255
                          THEN Emitted(bin \o <<ops.zpx, p.value>>, unres)
                          ELSE IF IndexIsHex(operand)
                          THEN parse_and_push_value(Append(bin, ops.absx), unres, addr_part, 2, line)
                          ELSE push_label(Append(bin, ops.absx), unres, addr_part, labs)
                     ELSE IF index_part = <<"Y">>
                     THEN IF IndexIsHex(operand)
                          THEN parse_and_push_value(Append(bin, ops.absy), unres, addr_part, 2, line)
                          ELSE push_label(Append(bin, ops.absy), unres, addr_part, labs)
                     ELSE Failed(Err(line, "Invalid index register", index_part))
              IN  Indexed(IndexAddr(operand), IndexReg(operand),
                          parse_value(IndexAddr(operand), line))
    ELSE IF starts_with(operand, <<"$">>)
    THEN push_direct(bin, unres, operand, ops.zp, ops.abs, line)
    ELSE push_label(Append(bin, ops.abs), unres, operand, labs)

\* compile_ldx (idx = "Y") / compile_ldy (idx = "X"); ops = [imm, zpi, absi, zp, abs]
compile_ldxy(ops, idx, bin, unres, operand, labs, line) ==
    IF starts_with(operand, <<"#">>)
    THEN parse_and_push_value(Append(bin, ops.imm), unres, Tail(operand), 1, line)
    ELSE IF contains(operand, ",")
    THEN IF Len(IndexParts(operand)) # 2
         THEN Failed(Err(line, "Invalid indexed addressing format", operand))
         ELSE LET Indexed(addr_part, index_part, p) ==
                     IF index_part # <<idx>>
                     THEN Failed(Err(line, "only supports the other index register", index_part))
                     ELSE IF IndexIsHex(operand) /\ ~p.ok THEN Failed(p.err)
                     ELSE IF IndexIsHex(operand) /\ p.value <= 255
                     THEN Emitted(bin \o <<ops.zpi, p.value>>, unres)
                     ELSE IF IndexIsHex(operand)
                     THEN parse_and_push_value(Append(bin, ops.absi), unres, addr_part, 2, line)
                     ELSE push_label(Append(bin, ops.absi), unres, addr_part, labs)
              IN  Indexed(IndexAddr(operand), IndexReg(operand),
                          parse_value(IndexAddr(operand), line))
    ELSE IF starts_with(operand, <<"$">>)
    THEN push_direct(bin, unres, operand, ops.zp, ops.abs, line)
    ELSE push_label(Append(bin, ops.abs), unres, operand, labs)

\* compile_stx (idx = "Y") / compile_sty (idx = "X"); ops = [zpi, zp, abs]
compile_stxy(ops, idx, bin, unres, operand, labs, line) ==
    IF starts_with(operand, <<"#">>)
    THEN Failed(Err(line, "does not support immediate addressing", operand))
    ELSE IF contains(operand, ",")
    THEN IF Len(IndexParts(operand)) # 2
         THEN Failed(Err(line, "Invalid indexed addressing format", operand))
         ELSE LET Indexed(addr_part, index_part, p) ==
                     IF index_part # <<idx>>
                     THEN Failed(Err(line, "only supports the other index register", index_part))
                     ELSE IF IndexIsHex(operand) /\ ~p.ok THEN Failed(p.err)
                     ELSE IF IndexIsHex(operand) /\ p.value <= 255
                     THEN Emitted(bin \o <<ops.zpi, p.value>>, unres)
                     ELSE IF IndexIsHex(operand)
                     THEN Failed(Err(line, "does not support absolute indexed addressing", operand))
                     ELSE push_label_byte(Append(bin, ops.zpi), unres, addr_part, labs)
              IN  Indexed(IndexAddr(operand), IndexReg(operand),
                          parse_value(IndexAddr(operand), line))
    ELSE IF starts_with(operand, <<"$">>)
    THEN push_direct(bin, unres, operand, ops.zp, ops.abs, line)
    ELSE push_label(Append(bin, ops.abs), unres, operand, labs)

\* compile_inc / compile_dec; ops = [zpx, absx, zp, abs]
compile_incdec(ops, bin, unres, operand, labs, line) ==
    IF starts_with(operand, <<"#">>)
    THEN Failed(Err(line, "does not support immediate addressing", operand))
    ELSE IF contains(operand, ",")
    THEN IF Len(IndexParts(operand)) # 2
         THEN Failed(Err(line, "Invalid indexed addressing format", operand))
         ELSE LET Indexed(addr_part, index_part, p) ==
                     IF index_part # <<"X">>
                     THEN Failed(Err(line, "only supports X-indexed addressing", index_part))
                     ELSE IF IndexIsHex(operand) /\ ~p.ok THEN Failed(p.err)
                     ELSE IF IndexIsHex(operand) /\ p.value <= 255
                     THEN Emitted(bin \o <<ops.zpx, p.value>>, unres)
                     ELSE IF IndexIsHex(operand)
                     THEN parse_and_push_value(Append(bin, ops.absx), unres, addr_part, 2, line)
                     ELSE push_label(Append(bin, ops.absx), unres, addr_part, labs)
              IN  Indexed(IndexAddr(operand), IndexReg(operand),
                          parse_value(IndexAddr(operand), line))
    ELSE IF starts_with(operand, <<"$">>)
    THEN push_direct(bin, unres, operand, ops.zp, ops.abs, line)
    ELSE push_label(Append(bin, ops.abs), unres, operand, labs)

\* compile_cpx / compile_cpy; ops = [imm, zp, abs]
compile_cpxy(ops, bin, unres, operand, labs, line) ==
    IF starts_with(operand, <<"#">>)
    THEN parse_and_push_value(Append(bin, ops.imm), unres, Tail(operand), 1, line)
    ELSE IF starts_with(operand, <<"$">>)
    THEN push_direct(bin, unres, operand, ops.zp, ops.abs, line)
    ELSE push_label(Append(bin, ops.abs), unres, operand, labs)

\* compile_sta receives the whole token vector and takes operands[0]
compile_sta(bin, unres, operands, labs, line) ==
    LET Parts(operand) ==
            SelectSeq([i \in 1..Len(split(operand, {",", " "})) |->
                          trim(split(operand, {",", " "})[i])],
                      LAMBDA t : t # <<>>)
        Store(operand, parts, addr_part, index_part, is_hex, p) ==
            IF starts_with(operand, <<"#">>)
            THEN Failed(Err(line, "does not support immediate addressing", operand))
            ELSE IF IsIndirectX(operand)
            THEN parse_and_push_value(Append(bin, 129), unres, IndirectPart(operand), 1, line)
            ELSE IF IsIndirectY(operand)
            THEN parse_and_push_value(Append(bin, 145), unres, IndirectPart(operand), 1, line)
            ELSE IF contains(operand, ",")
            THEN IF Len(parts) # 2
                 THEN Failed(Err(line, "Invalid indexed addressing format", operand))
                 ELSE IF is_hex /\ ~p.ok THEN Failed(p.err)
                 ELSE IF index_part = <<"X">>
                 THEN IF is_hex /\ p.value <= 255
                      THEN Emitted(bin \o <<149, p.value>>, unres)
                      ELSE IF is_hex
                      THEN parse_and_push_value(Append(bin, 157), unres, addr_part, 2, line)
                      ELSE push_label(Append(bin, 157), unres, addr_part, labs)
                 ELSE IF index_part = <<"Y">>
                 THEN IF is_hex
                      THEN Emitted(bin \o <<153, BitAnd(p.value, 255), p.value \div 256>>, unres)
                      ELSE push_label(Append(bin, 153), unres, addr_part, labs)
                 ELSE Failed(Err(line, "Invalid index register", index_part))
            ELSE IF starts_with(operand, <<"$">>)
            THEN push_direct(bin, unres, operand, 133, 141, line)
            ELSE push_label(Append(bin, 141), unres, operand, labs)
        Indexed(operand, parts) ==
            Store(operand, parts, trim(parts[1]), to_uppercase(trim(parts[2])),
                  starts_with(trim(parts[1]), <<"$">>), parse_value(trim(parts[1]), line))
        Operand(operand) == Indexed(operand, Parts(operand))
    IN  Operand(trim(split(operands[1], {";"})[1]))

\* compile_dbg pushes no 0xDE: one byte for a value <= 0xFF, else 0xAC low high
compile_dbg(bin, unres, operand, labs, line) ==
    LET Push(p) ==
            IF ~p.ok THEN Failed(p.err)
            ELSE IF p.value <= 255 THEN Emitted(Append(bin, p.value), unres)
            ELSE Emitted(bin \o <<172, BitAnd(p.value, 255), p.value \div 256>>, unres)
    IN  Push(parse_value(operand, line))

AluOps(imm, indx, indy, zpx, absx, absy, zp, abs) ==
    [imm |-> imm, indx |-> indx, indy |-> indy, zpx |-> zpx, absx |-> absx,
     absy |-> absy, zp |-> zp, abs |-> abs]

compile_lda(bin, unres, operand, labs, line) ==
    compile_alu(AluOps(169, 161, 177, 181, 189, 185, 165, 173), bin, unres, operand, labs, line)
compile_adc(bin, unres, operand, labs, line) ==
    compile_alu(AluOps(105, 97, 113, 117, 125, 121, 101, 109), bin, unres, operand, labs, line)
compile_sbc(bin, unres, operand, labs, line) ==
    compile_alu(AluOps(233, 225, 241, 245, 253, 249, 229, 237), bin, unres, operand, labs, line)
compile_and(bin, unres, operand, labs, line) ==
    compile_alu(AluOps(41, 33, 49, 53, 61, 57, 37, 45), bin, unres, operand, labs, line)
compile_ora(bin, unres, operand, labs, line) ==
    compile_alu(AluOps(9, 1, 17, 21, 29, 25, 5, 13), bin, unres, operand, labs, line)
compile_eor(bin, unres, operand, labs, line) ==
    compile_alu(AluOps(73, 65, 81, 85, 93, 89, 69, 77), bin, unres, operand, labs, line)
compile_cmp(bin, unres, operand, labs, line) ==
    compile_alu(AluOps(201, 193, 209, 213, 221, 217, 197, 205), bin, unres, operand, labs, line)
compile_ldx(bin, unres, operand, labs, line) ==
    compile_ldxy([imm |-> 162, zpi |-> 182, absi |-> 190, zp |-> 166, abs |-> 174],
                 "Y", bin, unres, operand, labs, line)
compile_ldy(bin, unres, operand, labs, line) ==
    compile_ldxy([imm |-> 160, zpi |-> 180, absi |-> 188, zp |-> 164, abs |-> 172],
                 "X", bin, unres, operand, labs, line)
compile_stx(bin, unres, operand, labs, line) ==
    compile_stxy([zpi |-> 150, zp |-> 134, abs |-> 142], "Y", bin, unres, operand, labs, line)
compile_sty(bin, unres, operand, labs, line) ==
    compile_stxy([zpi |-> 148, zp |-> 132, abs |-> 140], "X", bin, unres, operand, labs, line)
compile_inc(bin, unres, operand, labs, line) ==
    compile_incdec([zpx |-> 246, absx |-> 254, zp |-> 230, abs |-> 238],
                   bin, unres, operand, labs, line)
compile_dec(bin, unres, operand, labs, line) ==
    compile_incdec([zpx |-> 214, absx |-> 222, zp |-> 198, abs |-> 206],
                   bin, unres, operand, labs, line)
compile_cpx(bin, unres, operand, labs, line) ==
    compile_cpxy([imm |-> 224, zp |-> 228, abs |-> 236], bin, unres, operand, labs, line)
compile_cpy(bin, unres, operand, labs, line) ==
    compile_cpxy([imm |-> 192, zp |-> 196, abs |-> 204], bin, unres, operand, labs, line)

(***************************************************************************)
(* compiler.rs: compile.  One line of a pass, or one unresolved entry, at  *)
(* a time.                                                                 *)
(***************************************************************************)
ImpliedMnemonics ==
    {<<"N","O","P">>, <<"T","A","X">>, <<"T","A","Y">>, <<"T","X","A">>,
     <<"T","Y","A">>, <<"I","N","X">>, <<"I","N","Y">>, <<"D","E","X">>,
     <<"D","E","Y">>, <<"R","T","S">>, <<"B","R","K">>, <<"H","L","T">>}
BranchMnemonics ==
    {<<"B","E","Q">>, <<"B","N","E">>, <<"B","C","S">>, <<"B","C","C">>,
     <<"B","M","I">>, <<"B","P","L">>}
OperandMnemonics ==
    {<<"L","D","A">>, <<"L","D","X">>, <<"L","D","Y">>, <<"S","T","A">>,
     <<"S","T","X">>, <<"S","T","Y">>, <<"A","D","C">>, <<"S","B","C">>,
     <<"A","N","D">>, <<"O","R","A">>, <<"E","O","R">>, <<"I","N","C">>,
     <<"D","E","C">>, <<"C","M","P">>, <<"C","P","X">>, <<"C","P","Y">>,
     <<"D","B","G">>, <<"S","N","D">>} \cup BranchMnemonics
JumpMnemonics == {<<"J","M","P">>, <<"J","S","R">>}

get_instruction_size(instr, operand) ==
    IF to_uppercase(instr) \in BranchMnemonics THEN 2
    ELSE IF to_uppercase(instr) \in JumpMnemonics THEN 3
    ELSE IF starts_with(operand, <<"#">>) THEN 2
    ELSE IF IsIndirectY(operand) THEN 2
    ELSE IF IsIndirectX(operand) THEN 2
    ELSE IF contains(operand, ",")
    THEN IF IndexIsHex(operand)
         THEN (IF Len(IndexAddr(operand)) <= 3 THEN 2 ELSE 3)
         ELSE 3
    ELSE IF starts_with(operand, <<"$">>)
    THEN (IF Len(operand) <= 3 THEN 2 ELSE 3)
    ELSE 3

\* a `+` / `+=` on u16: the sum, or -1 when it overflows under overflow checks
AddU16(p, q, checks) ==
    IF p + q >= U16 THEN (IF checks THEN -1 ELSE (p + q) % U16) ELSE p + q

IsSkippedInPassOne(line) == line = <<>> \/ starts_with(line, <<";">>)
IsLabelLine(line) == ends_with(line, <<":">>)
IsDirective(line) == starts_with(line, <<".">>)
LabelOf(line) == trim(SubSeq(line, 1, Len(line) - 1))

\* The body of the first-pass loop for one (untrimmed) line.
\* kind: "ok" (continue), "err" (return Err), "panic"
PassOneStep(raw, labs, addr, line, checks) ==
    LET text == trim(raw)
        tokens == split_whitespace(text)
        mnemonic == to_uppercase(tokens[1])
        Go(size) ==
            IF AddU16(addr, size, checks) < 0
            THEN [kind |-> "panic", labels |-> labs, addr |-> addr, err |-> NoErr]
            ELSE [kind |-> "ok", labels |-> labs,
                  addr |-> AddU16(addr, size, checks), err |-> NoErr]
        Stop(e) == [kind |-> "err", labels |-> labs, addr |-> addr, err |-> e]
    IN  IF IsSkippedInPassOne(text) THEN Go(0)
        ELSE IF IsLabelLine(text)
        THEN [kind |-> "ok",
              labels |-> [n \in DOMAIN labs \cup {LabelOf(text)} |->
                             IF n = LabelOf(text) THEN addr ELSE labs[n]],
              addr |-> addr, err |-> NoErr]
        ELSE IF IsDirective(text) THEN Go(0)
        ELSE IF mnemonic \in ImpliedMnemonics THEN Go(1)
        ELSE IF mnemonic \in OperandMnemonics
        THEN IF Len(tokens) < 2
             THEN Stop(Err(line, "Missing operand for instruction", text))
             ELSE Go(get_instruction_size(tokens[1], tokens[2]))
        ELSE IF mnemonic \in JumpMnemonics
        THEN IF Len(tokens) < 2
             THEN Stop(Err(line, "Missing operand for instruction", text))
             ELSE Go(3)
        ELSE Stop(Err(line, "Unknown instruction", tokens[1]))

ImpliedOpcode(mnemonic) ==
    CASE mnemonic = <<"N","O","P">> -> 234
      [] mnemonic = <<"B","R","K">> -> 0
      [] mnemonic = <<"H","L","T">> -> 255
      [] mnemonic = <<"T","A","X">> -> 170
      [] mnemonic = <<"T","A","Y">> -> 168
      [] mnemonic = <<"T","X","A">> -> 138
      [] mnemonic = <<"T","Y","A">> -> 152
      [] mnemonic = <<"I","N","X">> -> 232
      [] mnemonic = <<"I","N","Y">> -> 200
      [] mnemonic = <<"D","E","X">> -> 202
      [] mnemonic = <<"D","E","Y">> -> 136
      [] mnemonic = <<"R","T","S">> -> 96

BranchOpcode(mnemonic) ==
    CASE mnemonic = <<"B","E","Q">> -> 240
      [] mnemonic = <<"B","N","E">> -> 208
      [] mnemonic = <<"B","C","S">> -> 176
      [] mnemonic = <<"B","C","C">> -> 144
      [] mnemonic = <<"B","M","I">> -> 48
      [] mnemonic = <<"B","P","L">> -> 16

\* JMP / JSR: opcode, then a `$` address or a label
compile_jump(opcode, bin, unres, operand, labs, line) ==
    IF starts_with(operand, <<"$">>)
    THEN parse_and_push_value(Append(bin, opcode), unres, operand, 2, line)
    ELSE push_label(Append(bin, opcode), unres, operand, labs)

\* ((target as i32) - (next as i32)) as i8 as u8, next = current_address + 2
BranchOffset(target, next) == AsU8(target - next)

PanicResult == Failed(Err(NoLine, "panic", <<>>))

\* the six branches; "panic" when current_address + 2 overflows
compile_branch(opcode, bin, unres, operand, addr, labs, line, checks) ==
    LET p == parse_value(operand, line)
        next == AddU16(addr, 2, checks)
    IN  IF starts_with(operand, <<"$">>)
        THEN IF ~p.ok THEN Failed(p.err)
             ELSE IF next < 0 THEN PanicResult
             ELSE Emitted(bin \o <<opcode, BranchOffset(p.value, next)>>, unres)
        ELSE IF operand \in DOMAIN labs
        THEN IF next < 0 THEN PanicResult
             ELSE Emitted(bin \o <<opcode, BranchOffset(labs[operand], next)>>, unres)
        ELSE Emitted(bin \o <<opcode, 0>>, Append(unres, <<Len(bin) + 1, operand, 1>>))

\* The match of the second-pass loop for one instruction line.
EmitInstruction(tokens, bin, unres, addr, labs, line, checks) ==
    LET instruction == to_uppercase(tokens[1])
        Missing == Failed(Err(line, "Missing operand", instruction))
        Operand(F(_, _, _, _, _)) ==
            IF Len(tokens) < 2 THEN Missing ELSE F(bin, unres, tokens[2], labs, line)
    IN  CASE instruction \in ImpliedMnemonics ->
                Emitted(Append(bin, ImpliedOpcode(instruction)), unres)
          [] instruction = <<"L","D","A">> -> Operand(compile_lda)
          [] instruction = <<"L","D","X">> -> Operand(compile_ldx)
          [] instruction = <<"L","D","Y">> -> Operand(compile_ldy)
          [] instruction = <<"S","T","A">> ->
                IF Len(tokens) < 2 THEN Missing
                ELSE compile_sta(bin, unres, tokens, labs, line)
          [] instruction = <<"S","T","X">> -> Operand(compile_stx)
          [] instruction = <<"S","T","Y">> -> Operand(compile_sty)
          [] instruction = <<"A","D","C">> -> Operand(compile_adc)
          [] instruction = <<"S","B","C">> -> Operand(compile_sbc)
          [] instruction = <<"A","N","D">> -> Operand(compile_and)
          [] instruction = <<"O","R","A">> -> Operand(compile_ora)
          [] instruction = <<"E","O","R">> -> Operand(compile_eor)
          [] instruction = <<"I","N","C">> -> Operand(compile_inc)
          [] instruction = <<"D","E","C">> -> Operand(compile_dec)
          [] instruction = <<"C","M","P">> -> Operand(compile_cmp)
          [] instruction = <<"C","P","X">> -> Operand(compile_cpx)
          [] instruction = <<"C","P","Y">> -> Operand(compile_cpy)
          [] instruction = <<"J","M","P">> ->
                IF Len(tokens) < 2 THEN Missing
                ELSE compile_jump(76, bin, unres, tokens[2], labs, line)
          [] instruction = <<"J","S","R">> ->
                IF Len(tokens) < 2 THEN Missing
                ELSE compile_jump(32, bin, unres, tokens[2], labs, line)
          [] instruction \in BranchMnemonics ->
                IF Len(tokens) < 2 THEN Missing
                ELSE compile_branch(BranchOpcode(instruction), bin, unres,
                                    tokens[2], addr, labs, line, checks)
          [] instruction = <<"D","B","G">> -> Operand(compile_dbg)
          [] instruction = <<"S","N","D">> ->
                IF Len(tokens) < 2 THEN Missing
                ELSE parse_and_push_value(Append(bin, 66), unres, tokens[2], 1, line)
          [] OTHER -> Failed(Err(line, "Unknown instruction", instruction))

IsSkippedInPassTwo(line) ==
    line = <<>> \/ starts_with(line, <<";">>) \/ ends_with(line, <<":">>)
        \/ starts_with(line, <<".">>)

\* The body of the second-pass loop for one (untrimmed) line, including the
\* closing `current_address += binary.len() as u16`.
PassTwoStep(raw, bin, unres, addr, labs, line, checks) ==
    LET Keep(kind, er) == [kind |-> kind, binary |-> bin, unresolved |-> unres,
                           addr |-> addr, err |-> er]
        Advance(e, next) ==
            IF e = PanicResult THEN Keep("panic", NoErr)
            ELSE IF ~e.ok THEN Keep("err", e.err)
            ELSE IF next < 0 THEN Keep("panic", NoErr)
            ELSE [kind |-> "ok", binary |-> e.binary, unresolved |-> e.unresolved,
                  addr |-> next, err |-> NoErr]
        Emit(e) == Advance(e, AddU16(addr, Len(e.binary) % U16, checks))
        Body(text) ==
            IF IsSkippedInPassTwo(text) THEN Keep("ok", NoErr)
            ELSE Emit(EmitInstruction(split_whitespace(text), bin, unres, addr, labs,
                                      line, checks))
    IN  Body(trim(raw))

\* binary[position] = value (position is a 0-based index)
Patch(bin, position, value) == [bin EXCEPT ![position + 1] = value]

\* The body of the resolution loop for one entry <<position, label, size>>.
ResolveStep(entry, bin, labs) ==
    LET position == entry[1]
        label == entry[2]
        size == entry[3]
    IN  IF label \in DOMAIN labs
        THEN IF size = 1
             THEN [ok |-> TRUE, err |-> NoErr,
                   binary |-> Patch(bin, position,
                                    AsU8(labs[label] - AsU16(position + 1)))]
             ELSE [ok |-> TRUE, err |-> NoErr,
                   binary |-> Patch(Patch(bin, position, BitAnd(labs[label], 255)),
                                    position + 1, labs[label] \div 256)]
        ELSE [ok |-> FALSE, err |-> Err(NoLine, "Undefined label", label),
              binary |-> bin]

(***************************************************************************)
(* Inputs: assembly sources and ROM images.                                *)
(***************************************************************************)
Line(mnemonic, operand) == mnemonic \o <<" ">> \o operand

\* spec scenarios 1, 2, 3, 4 and 6, and scenarios 2, 3 and 6 with each label
\* on a line of its own
SrcStore ==
    << <<"L","D","A"," ","#","$","4","2">>, <<"S","T","A"," ","$","8","0">>,
       <<"H","L","T">> >>
SrcCountdown ==
    << <<"L","D","X"," ","#","$","0","3">>, <<"l","o","o","p",":"," ","D","E","X">>,
       <<"B","N","E"," ","l","o","o","p">>, <<"H","L","T">> >>
SrcCountdownSplit ==
    << <<"L","D","X"," ","#","$","0","3">>, <<"l","o","o","p",":">>, <<"D","E","X">>,
       <<"B","N","E"," ","l","o","o","p">>, <<"H","L","T">> >>
SrcForward ==
    << <<"B","E","Q"," ","e","n","d">>, <<"N","O","P">>,
       <<"e","n","d",":"," ","H","L","T">> >>
SrcForwardSplit ==
    << <<"B","E","Q"," ","e","n","d">>, <<"N","O","P">>, <<"e","n","d",":">>,
       <<"H","L","T">> >>
SrcSubroutine ==
    << <<"J","S","R"," ","s","u","b">>, <<"H","L","T">>,
       <<"s","u","b",":"," ","L","D","A"," ","#","$","0","1">>, <<"R","T","S">> >>
SrcSubroutineSplit ==
    << <<"J","S","R"," ","s","u","b">>, <<"H","L","T">>, <<"s","u","b",":">>,
       <<"L","D","A"," ","#","$","0","1">>, <<"R","T","S">> >>
SrcAdc ==
    << <<"L","D","A"," ","#","$","7","F">>, <<"A","D","C"," ","#","$","0","1">>,
       <<"H","L","T">> >>

\* SND with a hexadecimal operand, with none, and with an immediate one
SrcSnd == << <<"S","N","D"," ","$","C","3">>, <<"H","L","T">> >>
SrcSndMissing == << <<"S","N","D">>, <<"H","L","T">> >>
SrcSndImmediate == << <<"S","N","D"," ","#","$","C","3">>, <<"H","L","T">> >>
\* DBG with a one-byte and with a two-byte address
SrcDbgZp == << <<"D","B","G"," ","$","1","0">>, <<"H","L","T">> >>
SrcDbgAbs == << <<"D","B","G"," ","$","1","2","3","4">>, <<"H","L","T">> >>

\* LDA of 0xFF written with two and with four hex digits, and of decimal
\* numbers below and above 256
SrcLdaZp == << <<"L","D","A"," ","$","F","F">>, <<"H","L","T">> >>
SrcLdaWide == << <<"L","D","A"," ","$","0","0","F","F">>, <<"H","L","T">> >>
SrcLdaDecimal == << <<"L","D","A"," ","1","6">>, <<"H","L","T">> >>
SrcLdaDecimalWide == << <<"L","D","A"," ","3","0","0">>, <<"H","L","T">> >>

\* STX indexed by Y from a label declared after it
SrcStxLabel ==
    << <<"S","T","X"," ","t","a","b",",","Y">>, <<"t","a","b",":">>, <<"H","L","T">> >>

ScenarioSources ==
    {SrcLdaZp, SrcLdaWide, SrcLdaDecimal, SrcLdaDecimalWide, SrcStore, SrcCountdown, SrcCountdownSplit, SrcForward, SrcForwardSplit,
     SrcSubroutine, SrcSubroutineSplit, SrcAdc,
     SrcSnd, SrcSndMissing, SrcSndImmediate, SrcDbgZp, SrcDbgAbs, SrcStxLabel }

\* one instruction followed by HLT, for every mnemonic and operand form
OperandForms ==
    { <<"#","$","1","0">>, <<"$","1","0">>, <<"$","1","2","3","4">>,
      <<"$","1","0",",","X">>, <<"$","1","0",",","Y">>,
      <<"$","1","2","3","4",",","X">>, <<"$","1","2","3","4",",","Y">>,
      <<"(","$","1","0",",","X",")">>, <<"(","$","1","0",")",",","Y">> }

OneLineSources ==
    { << Line(mn, op), <<"H","L","T">> >> :
          mn \in OperandMnemonics \cup JumpMnemonics, op \in OperandForms }
    \cup { << mn, <<"H","L","T">> >> : mn \in ImpliedMnemonics }

\* branches over a filler of three-byte JMP and one-byte NOP lines: forward
\* by 127 and by 128 bytes, backward by -128 and by -129
Filler(jumps, nops) ==
    [k \in 1..jumps |-> <<"J","M","P"," ","$","0","0","0","0">>]
    \o [k \in 1..nops |-> <<"N","O","P">>]
SrcBranchForward(jumps, nops) ==
    << <<"B","E","Q"," ","f","a","r">> >> \o Filler(jumps, nops)
    \o << <<"f","a","r",":">>, <<"H","L","T">> >>
SrcBranchBackward(jumps, nops) ==
    << <<"f","a","r",":">> >> \o Filler(jumps, nops)
    \o << <<"B","E","Q"," ","f","a","r">>, <<"H","L","T">> >>
SrcBranchMax == SrcBranchForward(42, 1)
SrcBranchTooFar == SrcBranchForward(42, 2)
SrcBranchMin == SrcBranchBackward(42, 0)
SrcBranchTooFarBack == SrcBranchBackward(42, 1)
\* a branch to an address far away
SrcBranchAddress == << <<"B","E","Q"," ","$","1","2","3","4">>, <<"H","L","T">> >>
\* a branch to an address two bytes past the next instruction
SrcBranchNear == << <<"B","E","Q"," ","$","0","0","0","4">>, <<"H","L","T">> >>
BranchSources ==
    {SrcBranchMax, SrcBranchTooFar, SrcBranchMin, SrcBranchTooFarBack, SrcBranchAddress,
     SrcBranchNear}

\* one instruction whose operand is a label defined nowhere, followed by HLT
Nowhere == <<"n","o","w","h","e","r","e">>
LabelMnemonics ==
    (OperandMnemonics \ {<<"D","B","G">>, <<"S","N","D">>}) \cup JumpMnemonics
SrcUndefined(mnemonic) == << Line(mnemonic, Nowhere), <<"H","L","T">> >>
UndefinedSources == { SrcUndefined(mn) : mn \in LabelMnemonics }

\* an operand-taking mnemonic alone on its line
MissingSources ==
    { << mn, <<"H","L","T">> >> : mn \in OperandMnemonics \cup JumpMnemonics }

\* the shortest run of three-byte instructions whose successive output
\* lengths 3, 6, 9, ... add up to more than 65535
LongLines == CHOOSE k \in 1..300 : 3 * k * (k + 1) > 2 * (U16 - 1)
                                   /\ 3 * (k - 1) * k <= 2 * (U16 - 1)
SrcLong == Filler(LongLines, 0) \o << <<"H","L","T">> >>

Sources ==
    ScenarioSources \cup OneLineSources \cup BranchSources \cup UndefinedSources
        \cup MissingSources \cup {SrcLong}

\* ROM images: a prologue that puts chosen values into V, C, A, X and Y, one
\* instruction under test, HLT.
SetV(v) == IF v = 1 THEN <<OP_LDA_IMM, 127, OP_ADC_IMM, 1>> ELSE <<>>
SetC(c) == <<OP_LDY_IMM, 0, OP_CPY_IMM, 1 - c>>
SetRegs(a, x, y) == <<OP_LDA_IMM, a, OP_LDX_IMM, x, OP_LDY_IMM, y>>
Prologue(v, c, a, x, y) == SetV(v) \o SetC(c) \o SetRegs(a, x, y)

\* how far from 0x00, 0x80 and 0xFF the byte values under test reach
EdgeWidth == 2
EdgeBytes ==
    {b \in 0..255 : b < EdgeWidth \/ b >= 256 - EdgeWidth
                       \/ (b >= 128 - EdgeWidth /\ b < 128 + EdgeWidth)}

\* immediate arithmetic and logic on A, over edge values of A, the operand and C
ArithOpcodes == {OP_ADC_IMM, OP_SBC_IMM, OP_AND_IMM, OP_ORA_IMM, OP_EOR_IMM}
ArithRoms ==
    { Prologue(0, c, a, 3, 5) \o <<op, operand, OP_HLT>> :
          c \in {0, 1}, a \in EdgeBytes, op \in ArithOpcodes, operand \in EdgeBytes }

\* CMP / CPX / CPY, over edge values of the register and the operand, V and C
CompareOpcodes == {OP_CMP_IMM, OP_CPX_IMM, OP_CPY_IMM}
CompareRoms ==
    { Prologue(v, c, r, r, r) \o <<op, operand, OP_HLT>> :
          v \in {0, 1}, c \in {0, 1}, r \in EdgeBytes, op \in CompareOpcodes,
          operand \in EdgeBytes }

\* transfers and register increments / decrements
RegisterOpcodes == {OP_TAX, OP_TAY, OP_TXA, OP_TYA, OP_INX, OP_INY, OP_DEX, OP_DEY}
RegisterRoms ==
    { Prologue(0, 0, a, r, r) \o <<op, OP_HLT>> :
          a \in EdgeBytes, r \in EdgeBytes, op \in RegisterOpcodes }

\* one write through the CPU write path, then a load of the written address.
\* The prologue (v = 0) leaves A's value at address 5, X = 1, Y = 2.
ZpTargets == {5, 128, 255}
AbsTargets == {128, 511, 32768, 61440, 64511, 64512, 64707, 65535}
SndPayloads == {0, 195, 255}
Lo(address) == address % 256
Hi(address) == address \div 256
WriteInstrs ==
    { <<op, z>> : op \in {OP_STA_ZP, OP_STA_ZPX, OP_STX_ZP, OP_STY_ZP, OP_INC_ZP, OP_DEC_ZP},
                  z \in ZpTargets }
    \cup { <<OP_STA_ABS, Lo(t), Hi(t)>> : t \in AbsTargets }
    \cup { <<OP_SND, p>> : p \in SndPayloads }
\* the address a write instruction of WriteInstrs stores to (X = 1)
TargetOf(w) ==
    CASE w[1] = OP_STA_ZPX -> (w[2] + 1) % 256
      [] w[1] = OP_STA_ABS -> w[2] + 256 * w[3]
      [] w[1] = OP_SND -> AUDIO_START + w[2]
      [] OTHER -> w[2]
ReadInstrs(t) ==
    { <<OP_LDA_ABS, Lo(t), Hi(t)>> }
    \cup (IF t < 256 THEN { <<OP_LDA_ZP, t>>, <<OP_LDA_ZPX, (t + 255) % 256>> } ELSE {})
MemoryRoms ==
    UNION { { Prologue(0, 0, a, 1, 2) \o w \o r \o <<OP_HLT>> :
                  a \in EdgeBytes, r \in ReadInstrs(TargetOf(w)) } : w \in WriteInstrs }

\* subroutine calls: a call and return, nested calls, a JSR whose operand
\* fetch wraps PC from 0xFFFF to 0x0000 (the ROM first writes that JSR to
\* 0xFFFD and HLT to 0x0000), an RTS on an empty stack followed by a call
\* whose pushes wrap SP, and an RTS of the address 0xFFFF
RomCall == <<OP_JSR_ABS, 4, 0, OP_HLT, OP_LDA_ABS, 254, 1, OP_RTS>>
RomNested == <<OP_JSR_ABS, 4, 0, OP_HLT, OP_JSR_ABS, 8, 0, OP_RTS, OP_RTS>>
RomCallAtTop ==
    <<OP_LDA_IMM, OP_JSR_ABS, OP_STA_ABS, 253, 255,
      OP_LDA_IMM, 18, OP_STA_ABS, 254, 255,
      OP_LDA_IMM, OP_HLT, OP_STA_ABS, 0, 0,
      OP_JMP_ABS, 253, 255, OP_RTS>>
RomStackWrap == <<OP_RTS, OP_JSR_ABS, 5, 0, OP_HLT, OP_RTS>>
RomReturnTop ==
    <<OP_LDA_IMM, 255, OP_STA_ABS, 0, 1, OP_STA_ABS, 1, 1, OP_STA_ABS, 0, 0, OP_RTS>>
ControlRoms == {RomCall, RomNested, RomCallAtTop, RomStackWrap, RomReturnTop}

\* the six branches at address 10, over edge displacements, with C chosen by
\* the prologue and Z, N by the value it loads into Y last; a taken BNE at
\* 0xFFFD whose target wraps past 0xFFFF, and one at 0xFFFF whose operand
\* byte is fetched from 0x0000
BranchOpcodes == {OP_BEQ, OP_BNE, OP_BCS, OP_BCC, OP_BMI, OP_BPL}
RomBranchAtTop ==
    <<OP_LDA_IMM, OP_BNE, OP_STA_ABS, 253, 255,
      OP_LDA_IMM, 2, OP_STA_ABS, 254, 255,
      OP_JMP_ABS, 253, 255>>
RomBranchWrap ==
    <<OP_LDA_IMM, OP_BNE, OP_STA_ABS, 255, 255, OP_JMP_ABS, 255, 255>>
BranchRoms ==
    { Prologue(0, c, 1, 1, y) \o <<op, d, OP_HLT>> :
          c \in {0, 1}, y \in {0, 1, 128}, op \in BranchOpcodes, d \in EdgeBytes }
    \cup {RomBranchAtTop, RomBranchWrap}

\* the least byte no arm of execute decodes: at 0x0000, in the middle of a
\* program, and at 0xFFFF, where fetching it wraps PC to 0x0000
UnknownOpcode ==
    CHOOSE b \in 0..255 \ DecodedOpcodes : \A c \in 0..255 \ DecodedOpcodes : b <= c
RomUnknown == <<UnknownOpcode>>
RomUnknownMid == Prologue(1, 1, 129, 3, 5) \o <<UnknownOpcode, OP_HLT>>
RomUnknownAtTop ==
    <<OP_LDA_IMM, UnknownOpcode, OP_STA_ABS, 255, 255, OP_JMP_ABS, 255, 255>>
\* DBG with a two-byte operand
RomDbg == <<OP_LDA_IMM, 66, OP_STA_ZP, 52, OP_DBG, 52, 18, OP_HLT>>
OpcodeRoms == {RomUnknown, RomUnknownMid, RomUnknownAtTop, RomDbg}

\* the empty image, which leaves memory all zero (BRK at every address), and
\* NOP and BRK executed with every register and flag set
RomEmpty == <<>>
RomNopBrk == Prologue(1, 1, 129, 3, 5) \o <<OP_NOP, OP_BRK, OP_HLT, OP_HLT>>
\* the stores, and SND, DBG, JMP, JSR, RTS, executed with V, C and N set
RomStores ==
    Prologue(1, 1, 3, 5, 129)
        \o <<OP_STA_ZP, 128, OP_STA_ZPX, 128, OP_STA_ABS, 0, 2, OP_STX_ZP, 144,
             OP_STY_ZP, 145, OP_HLT>>
RomJumps ==
    Prologue(1, 1, 3, 5, 129)
        \o <<OP_SND, 195, OP_DBG, 128, OP_JMP_ABS, 21, 0, OP_JSR_ABS, 25, 0,
             OP_HLT, OP_RTS>>
FrameRoms == {RomEmpty, RomNopBrk, RomStores, RomJumps}

Roms ==
    ArithRoms \cup CompareRoms \cup RegisterRoms \cup MemoryRoms \cup ControlRoms
    \cup BranchRoms \cup OpcodeRoms \cup FrameRoms

\* the command line without --rom and without --asm
NoArguments == [kind |-> "none", source |-> <<>>, rom |-> <<>>]
Inputs == { [kind |-> "asm", source |-> s, rom |-> <<>>] : s \in Sources }
          \cup { [kind |-> "rom", source |-> <<>>, rom |-> r] : r \in Roms }
        \cup { NoArguments }

(***************************************************************************)
(* The program: main.rs.                                                   *)
(***************************************************************************)
\* most CPU steps taken in one run
MaxSteps == 12

Pending == [state |-> "pending", err |-> NoErr]
Ok == [state |-> "ok", err |-> NoErr]
ErrResult(e) == [state |-> "err", err |-> e]

NoLabels == [n \in {} |-> 0]
NoWrites == [n \in {} |-> 0]
\* no call yet: call and before are "none"; opcode is -1 when none was fetched
NoPrev == [opcode |-> -1, cpu |-> CPU_new, memory |-> Memory_new,
           call |-> "none", before |-> "none", returned |-> TRUE, resets |-> 0,
           appended |-> 0, calls |-> 0, pushed |-> 0, sp |-> 0, value |-> 0,
           sized |-> 0]

\* log: the <<address, value>> of every CPU::write of the call, in order
Machine ==
    [cpu |-> cpu, memory |-> memory, written |-> written, panicked |-> panicked,
     log |-> <<>>]

\* both mutexes free, every thread outside its loop body, no step in progress
NoSync ==
    [owner |-> "none", cpu_owner |-> "none",
     at |-> [cpu |-> "idle", display |-> "idle", audio |-> "idle"],
     held |-> 0, reads |-> 0, issued |-> 0, start |-> Memory_new,
     next |-> [cpu |-> CPU_new, memory |-> Memory_new, written |-> NoWrites,
               panicked |-> FALSE, log |-> <<>>],
     opcode |-> -1, frame |-> ZeroArray]

compilerVars == <<line_num, labels, current_address, binary, unresolved_jumps, result>>
machineVars == <<cpu, memory, panicked, written, prev, audio>>

\* main: Memory::new, CPU::new; nothing compiled, nothing called
Start ==
    /\ build \in BOOLEAN
    /\ phase = IF input.kind = "asm" THEN "pass1"
               ELSE IF input.kind = "rom" THEN "load_rom" ELSE "usage"
    /\ line_num = 0
    /\ labels = NoLabels
    /\ current_address = 0
    /\ binary = <<>>
    /\ unresolved_jumps = <<>>
    /\ result = Pending
    /\ cpu = CPU_new
    /\ memory = Memory_new
    /\ panicked = FALSE
    /\ written = NoWrites
    /\ prev = NoPrev
    /\ audio = Audio_new
    /\ sync = NoSync

Init ==
    /\ input \in Inputs
    /\ Start

\* compile, first pass: one iteration of the loop over source.lines()
PassOne ==
    /\ phase = "pass1"
    /\ line_num < Len(input.source)
    /\ \E r \in {PassOneStep(input.source[line_num + 1], labels, current_address,
                             line_num + 1, build)} :
           /\ line_num' = line_num + 1
           /\ labels' = r.labels
           /\ current_address' = r.addr
           /\ result' = IF r.kind = "err" THEN ErrResult(r.err) ELSE result
           /\ phase' = CASE r.kind = "err" -> "compiled"
                         [] r.kind = "panic" -> "exit"
                         [] OTHER -> phase
           /\ panicked' = (r.kind = "panic")
           /\ UNCHANGED <<binary, unresolved_jumps>>
    /\ UNCHANGED <<input, build, sync, cpu, memory, written, prev, audio>>

\* compile: the first loop is over; current_address = 0 and the second begins
BeginPassTwo ==
    /\ phase = "pass1"
    /\ line_num = Len(input.source)
    /\ phase' = "pass2"
    /\ line_num' = 0
    /\ current_address' = 0
    /\ prev' = [prev EXCEPT !.sized = current_address]
    /\ UNCHANGED <<input, build, sync, labels, binary, unresolved_jumps, result>>
    /\ UNCHANGED <<cpu, memory, panicked, written, audio>>

\* compile, second pass: one iteration of the loop over source.lines()
PassTwo ==
    /\ phase = "pass2"
    /\ line_num < Len(input.source)
    /\ \E r \in {PassTwoStep(input.source[line_num + 1], binary, unresolved_jumps,
                             current_address, labels, line_num + 1, build)} :
           /\ line_num' = line_num + 1
           /\ binary' = r.binary
           /\ unresolved_jumps' = r.unresolved
           /\ current_address' = r.addr
           /\ result' = IF r.kind = "err" THEN ErrResult(r.err) ELSE result
           /\ phase' = CASE r.kind = "err" -> "compiled"
                         [] r.kind = "panic" -> "exit"
                         [] OTHER -> phase
           /\ panicked' = (r.kind = "panic")
           /\ prev' = [prev EXCEPT !.appended =
                                       @ + Len(r.unresolved) - Len(unresolved_jumps)]
    /\ UNCHANGED <<input, build, sync, labels, cpu, memory, written, audio>>

\* compile: the second loop is over
BeginResolve ==
    /\ phase = "pass2"
    /\ line_num = Len(input.source)
    /\ phase' = "resolve"
    /\ UNCHANGED <<input, build, sync>>
    /\ UNCHANGED compilerVars
    /\ UNCHANGED machineVars

\* compile, resolution: one iteration of the loop over unresolved_jumps
Resolve ==
    /\ phase = "resolve"
    /\ unresolved_jumps # <<>>
    /\ \E r \in {ResolveStep(Head(unresolved_jumps), binary, labels)} :
           /\ binary' = r.binary
           /\ unresolved_jumps' = Tail(unresolved_jumps)
           /\ result' = IF r.ok THEN result ELSE ErrResult(r.err)
           /\ phase' = IF r.ok THEN phase ELSE "compiled"
    /\ UNCHANGED <<input, build, sync, line_num, labels, current_address>>
    /\ UNCHANGED machineVars

\* compile: Ok(binary)
ReturnOk ==
    /\ phase = "resolve"
    /\ unresolved_jumps = <<>>
    /\ result' = Ok
    /\ phase' = "compiled"
    /\ UNCHANGED <<input, build, sync, line_num, labels, current_address, binary,
                   unresolved_jumps>>
    /\ UNCHANGED machineVars

\* main: Ok(binary) => memory.load_program(&binary)
LoadBinary ==
    /\ phase = "compiled"
    /\ result.state = "ok"
    /\ memory' = Memory_load_program(memory, binary)
    /\ phase' = "run"
    /\ UNCHANGED <<input, build, sync, cpu, panicked, written, prev, audio>>
    /\ UNCHANGED compilerVars

\* main: Err(err) => eprintln!, return
ReportError ==
    /\ phase = "compiled"
    /\ result.state = "err"
    /\ phase' = "exit"
    /\ UNCHANGED <<input, build, sync>>
    /\ UNCHANGED compilerVars
    /\ UNCHANGED machineVars

\* main: neither --rom nor --asm => println!, return
ReportUsage ==
    /\ phase = "usage"
    /\ phase' = "exit"
    /\ UNCHANGED <<input, build, sync>>
    /\ UNCHANGED compilerVars
    /\ UNCHANGED machineVars

\* the status the process ends with: main has no return value and never calls
\* process::exit, so the status is 0 unless a panic unwinds out of main
\* (cpu_handle.join().unwrap()), which ends the process with status 101
ExitCode == IF panicked THEN 101 ELSE 0

\* main: --rom => memory.load_program(&rom_data)
LoadRom ==
    /\ phase = "load_rom"
    /\ memory' = Memory_load_program(memory, input.rom)
    /\ phase' = "run"
    /\ UNCHANGED <<input, build, sync, cpu, panicked, written, prev, audio>>
    /\ UNCHANGED compilerVars

\* the CPU thread's loop: one cpu.step(); break when it returns false
Step ==
    /\ phase = "run"
    /\ cpu.cycles < MaxSteps
    /\ \E m \in {CPU_step(Machine, build)} :
           /\ cpu' = m.cpu
           /\ memory' = m.memory
           /\ written' = m.written
           /\ panicked' = m.panicked
           /\ phase' = IF m.cpu.halted \/ m.panicked THEN "exit" ELSE "run"
           /\ prev' = [prev EXCEPT !.opcode = FetchValue(Machine), !.cpu = cpu,
                                   !.memory = memory, !.call = "step",
                                   !.before = prev.call,
                                   !.returned = ~m.cpu.halted]
    /\ UNCHANGED <<input, build, sync, audio>>
    /\ UNCHANGED compilerVars

\* Memory::swap_display_buffer, callable by any holder of the memory lock
SwapDisplayBuffer ==
    /\ phase = "run"
    /\ memory' = Memory_swap_display_buffer(memory)
    /\ UNCHANGED <<input, build, sync, phase, cpu, panicked, written, prev, audio>>
    /\ UNCHANGED compilerVars

Next ==
    \/ PassOne
    \/ BeginPassTwo
    \/ PassTwo
    \/ BeginResolve
    \/ Resolve
    \/ ReturnOk
    \/ LoadBinary
    \/ ReportError
    \/ ReportUsage
    \/ LoadRom
    \/ Step
    \/ SwapDisplayBuffer

Spec == Init /\ [][Next]_vars

(***************************************************************************)
(* The CPU through its public interface: a client that holds the CPU and   *)
(* calls step() and reset() in any order, also after step() has returned   *)
(* false.                                                                  *)
(***************************************************************************)
\* most reset() calls made on one CPU
MaxResets == 2

\* a loop that counts memory[0x10] up to 2 and halts with Z and C set
RomCounter ==
    <<OP_INC_ZP, 16, OP_LDA_ZP, 16, OP_CMP_IMM, 2, OP_BNE, 248, OP_HLT>>
CpuRoms == ControlRoms \cup OpcodeRoms \cup {RomCounter, RomBranchAtTop, RomBranchWrap}
CpuInputs == { [kind |-> "rom", source |-> <<>>, rom |-> r] : r \in CpuRoms }

InitCpu ==
    /\ input \in CpuInputs
    /\ Start

\* CPU::step, called in any state of the CPU
CallStep ==
    /\ phase = "run"
    /\ cpu.cycles < MaxSteps
    /\ \E m \in {CPU_step(Machine, build)} :
           /\ cpu' = m.cpu
           /\ memory' = m.memory
           /\ written' = m.written
           /\ panicked' = m.panicked
           /\ phase' = IF m.panicked THEN "exit" ELSE "run"
           /\ prev' = [prev EXCEPT
                          !.opcode = IF cpu.halted THEN -1 ELSE FetchValue(Machine),
                          !.cpu = cpu, !.memory = memory, !.call = "step",
                          !.before = prev.call, !.returned = ~m.cpu.halted]
    /\ UNCHANGED <<input, build, sync, audio>>
    /\ UNCHANGED compilerVars

\* CPU::reset, called in any state of the CPU
CallReset ==
    /\ phase = "run"
    /\ prev.resets < MaxResets
    /\ cpu' = CPU_reset(cpu)
    /\ prev' = [prev EXCEPT !.opcode = -1, !.cpu = cpu, !.memory = memory,
                            !.call = "reset", !.before = prev.call,
                            !.resets = @ + 1]
    /\ UNCHANGED <<input, build, sync, phase, memory, panicked, written, audio>>
    /\ UNCHANGED compilerVars

NextCpu ==
    \/ LoadRom
    \/ CallStep
    \/ CallReset

SpecCpu == InitCpu /\ [][NextCpu]_vars

(***************************************************************************)
(* The CPU thread and the audio thread of main.rs running side by side on  *)
(* the shared memory: each CPU step and each Audio::update holds the       *)
(* memory lock for its reads and writes, in any interleaving.  Both loops  *)
(* keep running, so neither is postponed forever.                          *)
(***************************************************************************)
\* two notes written to one audio byte, a note written and silenced again,
\* and two SND instructions
AudioNotes == {65, 130}
RomTwoNotes(p, q) ==
    <<OP_LDA_IMM, p, OP_STA_ABS, 0, 252, OP_LDA_IMM, q, OP_STA_ABS, 0, 252, OP_HLT>>
RomTwoSounds(p, q) == <<OP_SND, p, OP_SND, q, OP_HLT>>
AudioRoms ==
    { RomTwoNotes(p, q) : p \in AudioNotes, q \in AudioNotes \cup {0} }
    \cup { RomTwoSounds(p, q) : p \in AudioNotes, q \in AudioNotes }
AudioInputs == { [kind |-> "rom", source |-> <<>>, rom |-> r] : r \in AudioRoms }

InitAudio ==
    /\ input \in AudioInputs
    /\ Start

\* the audio thread's loop: one audio.update()
AudioUpdate ==
    /\ phase \in {"run", "exit"}
    /\ ~panicked
    /\ audio' = Audio_update(audio, memory)
    /\ UNCHANGED <<input, build, sync, phase, cpu, memory, panicked, written, prev>>
    /\ UNCHANGED compilerVars

NextAudio ==
    \/ LoadRom
    \/ Step
    \/ AudioUpdate

SpecAudio ==
    /\ InitAudio
    /\ [][NextAudio]_vars
    /\ WF_vars(LoadRom)
    /\ WF_vars(Step)
    /\ WF_vars(AudioUpdate)

(***************************************************************************)
(* A client of Memory: writes, then one load_program                       *)
(***************************************************************************)
MaxWrites == 2

\* an image of n bytes: HLT first, zeros up to the last bytes of the ROM
\* region, then non-zero bytes on both sides of offset ROM_SIZE
Image(n) ==
    <<OP_HLT>> \o [i \in 1..(n - 1) |-> IF i >= ROM_SIZE - 2 THEN AsU8(i) + 17 ELSE 0]
LoadPrograms ==
    { <<>>, <<OP_HLT>>, <<OP_NOP, 0, OP_HLT>> }
    \cup { Image(n) : n \in {ROM_SIZE - 1, ROM_SIZE, ROM_SIZE + 2} }
LoadInputs == { [kind |-> "rom", source |-> <<>>, rom |-> r] : r \in LoadPrograms }
LoadAddresses ==
    { 1, ROM_SIZE - 1, ROM_SIZE, DISPLAY_START, MEMORY_SIZE - 1 }
LoadByte == CHOOSE b \in 1..255 : \A p \in LoadPrograms : \A i \in DOMAIN p : p[i] # b

InitLoad ==
    /\ input \in LoadInputs
    /\ Start

\* Memory::write, called before the program is loaded
CallWrite ==
    /\ phase = "load_rom"
    /\ Cardinality(DOMAIN memory.data) < MaxWrites
    /\ \E a \in LoadAddresses : memory' = Memory_write(memory, a, LoadByte)
    /\ UNCHANGED <<input, build, sync, phase, cpu, panicked, written, prev, audio>>
    /\ UNCHANGED compilerVars

\* Memory::load_program, called on a store that may hold bytes already
CallLoadProgram ==
    /\ phase = "load_rom"
    /\ memory' = Memory_load_program(memory, input.rom)
    /\ prev' = [prev EXCEPT !.memory = memory, !.call = "load",
                            !.before = prev.call]
    /\ phase' = "run"
    /\ UNCHANGED <<input, build, sync, cpu, panicked, written, audio>>
    /\ UNCHANGED compilerVars

NextLoad ==
    \/ CallWrite
    \/ CallLoadProgram

SpecLoad == InitLoad /\ [][NextLoad]_vars

(***************************************************************************)
(* A client of CPU: push and pop called in any order                       *)
(***************************************************************************)
MaxCalls == 4

PushBytes == {90, 195}
StackInputs == { [kind |-> "rom", source |-> <<>>, rom |-> <<>>] }

InitStack ==
    /\ input \in StackInputs
    /\ Start

\* CPU::push(value); prev keeps the byte and the SP the call started from
CallPush ==
    /\ phase = "load_rom"
    /\ prev.calls < MaxCalls
    /\ \E value \in PushBytes :
           \E m \in {CPU_push(Machine, value)} :
               /\ cpu' = m.cpu
               /\ memory' = m.memory
               /\ written' = m.written
               /\ prev' = [prev EXCEPT !.cpu = cpu, !.memory = memory,
                                       !.call = "push", !.before = prev.call,
                                       !.calls = @ + 1, !.pushed = value,
                                       !.sp = cpu.sp]
    /\ UNCHANGED <<input, build, sync, phase, panicked, audio>>
    /\ UNCHANGED compilerVars

\* CPU::pop(); prev keeps the byte it returned
CallPop ==
    /\ phase = "load_rom"
    /\ prev.calls < MaxCalls
    /\ cpu' = PopNext(Machine).cpu
    /\ prev' = [prev EXCEPT !.cpu = cpu, !.memory = memory, !.call = "pop",
                            !.before = prev.call, !.calls = @ + 1,
                            !.value = PopValue(Machine)]
    /\ UNCHANGED <<input, build, sync, phase, memory, panicked, written, audio>>
    /\ UNCHANGED compilerVars

NextStack ==
    \/ CallPush
    \/ CallPop

SpecStack == InitStack /\ [][NextStack]_vars

(***************************************************************************)
(* The CPU thread of main.rs with the presenter and the audio watcher      *)
(* (the two threads main.rs keeps in a comment block) on the shared        *)
(* Arc<Mutex<Memory>>.  A thread at a "lock" position is blocked in        *)
(* self.memory.lock() until the lock is granted.  CPU::fetch, read and     *)
(* write lock inside the call and drop the guard when it returns;          *)
(* Display::update and Audio::update bind the guard to a local that lives  *)
(* to the end of the function.  The registers are private to the thread    *)
(* holding the CPU lock, so a step's result is computed when its opcode is *)
(* fetched and installed when step() returns; its reads and writes of      *)
(* memory are issued one lock hold at a time, the reads before the writes  *)
(* as in every arm of execute.                                             *)
(***************************************************************************)
\* LDA #129; STA $01FF; STA $01FE; JSR sub; HLT; sub: STA $F000; SND 195; RTS
RomSharedCall ==
    <<OP_LDA_IMM, 129, OP_STA_ABS, 255, 1, OP_STA_ABS, 254, 1, OP_JSR_ABS, 12, 0,
      OP_HLT, OP_STA_ABS, 0, 240, OP_SND, 195, OP_RTS>>
\* loop: INC $80; JMP loop
RomLoop == <<OP_INC_ZP, 128, OP_JMP_ABS, 0, 0>>
ThreadRoms == {RomSharedCall, RomLoop}
ThreadInputs == { [kind |-> "rom", source |-> <<>>, rom |-> r] : r \in ThreadRoms }

\* execute: the fetch, read and pop calls of the opcode's arm
OperandReads(opcode) ==
    IF opcode = OP_LDA_ABS THEN 3
    ELSE IF opcode \in {OP_LDA_ZP, OP_LDA_ZPX, OP_STA_ABS, OP_INC_ZP, OP_DEC_ZP,
                        OP_JMP_ABS, OP_JSR_ABS, OP_RTS, OP_DBG} THEN 2
    ELSE IF opcode \in {OP_LDA_IMM, OP_LDX_IMM, OP_LDY_IMM, OP_STA_ZP, OP_STA_ZPX,
                        OP_STX_ZP, OP_STY_ZP, OP_ADC_IMM, OP_SBC_IMM, OP_AND_IMM,
                        OP_ORA_IMM, OP_EOR_IMM, OP_CMP_IMM, OP_CPX_IMM, OP_CPY_IMM,
                        OP_BRK, OP_SND} \cup BranchOpcodes THEN 1
    ELSE 0

\* the call the CPU thread makes next: a read, a write, or the end of step()
AfterAccess(reads, issued, log) ==
    IF reads > 0 THEN "lock_read"
    ELSE IF issued < Len(log) THEN "lock_write" ELSE "return"

\* the position of a call whose lock() has been granted
Granted(at) ==
    IF at = "lock_fetch" THEN "fetch" ELSE IF at = "lock_read" THEN "read" ELSE "write"

InitThreads ==
    /\ input \in ThreadInputs
    /\ Start

\* the CPU thread: let mut cpu = cpu.lock().unwrap(); cpu.step() begins
CpuLock ==
    /\ phase = "run"
    /\ cpu.cycles < MaxSteps
    /\ sync.at.cpu = "idle"
    /\ sync.cpu_owner = "none"
    /\ sync' = [sync EXCEPT !.cpu_owner = "cpu", !.at.cpu = "lock_fetch"]
    /\ UNCHANGED <<input, build, phase, cpu, memory, panicked, written, prev, audio>>
    /\ UNCHANGED compilerVars

\* CPU::fetch / read / write: self.memory.lock() is granted
CpuAcquire ==
    /\ sync.at.cpu \in {"lock_fetch", "lock_read", "lock_write"}
    /\ sync.owner = "none"
    /\ sync' = [sync EXCEPT !.owner = "cpu", !.held = 0,
                            !.at.cpu = Granted(sync.at.cpu)]
    /\ UNCHANGED <<input, build, phase, cpu, memory, panicked, written, prev, audio>>
    /\ UNCHANGED compilerVars

\* step's self.fetch() of the opcode; the guard is dropped on return
CpuFetch ==
    /\ sync.at.cpu = "fetch"
    /\ sync.owner = "cpu"
    /\ \E m \in {CPU_step(Machine, build)} :
           sync' = [sync EXCEPT !.owner = "none", !.held = 0,
                                !.opcode = FetchValue(Machine),
                                !.reads = OperandReads(FetchValue(Machine)),
                                !.issued = 0, !.start = memory, !.next = m,
                                !.at.cpu = AfterAccess(
                                               OperandReads(FetchValue(Machine)),
                                               0, m.log)]
    /\ UNCHANGED <<input, build, phase, cpu, memory, panicked, written, prev, audio>>
    /\ UNCHANGED compilerVars

\* one fetch, read or pop of the opcode's arm; the guard is dropped on return
CpuRead ==
    /\ sync.at.cpu = "read"
    /\ sync.owner = "cpu"
    /\ sync' = [sync EXCEPT !.owner = "none", !.held = 0, !.reads = @ - 1,
                            !.at.cpu = AfterAccess(sync.reads - 1, sync.issued,
                                                   sync.next.log)]
    /\ UNCHANGED <<input, build, phase, cpu, memory, panicked, written, prev, audio>>
    /\ UNCHANGED compilerVars

\* one CPU::write of the opcode's arm; the guard is dropped on return
CpuWrite ==
    /\ sync.at.cpu = "write"
    /\ sync.owner = "cpu"
    /\ \E w \in {sync.next.log[sync.issued + 1]} :
           /\ memory' = Memory_write(memory, w[1], w[2])
           /\ written' = [k \in DOMAIN written \cup {w[1]} |->
                             IF k = w[1] THEN w[2] ELSE written[k]]
    /\ sync' = [sync EXCEPT !.owner = "none", !.held = 0, !.issued = @ + 1,
                            !.at.cpu = AfterAccess(0, sync.issued + 1,
                                                   sync.next.log)]
    /\ UNCHANGED <<input, build, phase, cpu, panicked, prev, audio>>
    /\ UNCHANGED compilerVars

\* step() returns and the CPU guard goes out of scope; break when it
\* returned false
CpuReturn ==
    /\ sync.at.cpu = "return"
    /\ cpu' = sync.next.cpu
    /\ panicked' = sync.next.panicked
    /\ phase' = IF sync.next.cpu.halted \/ sync.next.panicked THEN "exit" ELSE "run"
    /\ prev' = [prev EXCEPT !.opcode = sync.opcode, !.cpu = cpu,
                            !.memory = sync.start, !.call = "step",
                            !.before = prev.call,
                            !.returned = ~sync.next.cpu.halted]
    /\ sync' = [sync EXCEPT !.cpu_owner = "none",
                            !.at.cpu = IF sync.next.cpu.halted \/ sync.next.panicked
                                       THEN "done" ELSE "idle"]
    /\ UNCHANGED <<input, build, memory, written, audio>>
    /\ UNCHANGED compilerVars

\* the display thread calls display.update(): event poll, canvas.clear()
DisplayBegin ==
    /\ phase \in {"run", "exit"}
    /\ ~panicked
    /\ sync.at.display = "idle"
    /\ sync' = [sync EXCEPT !.at.display = "lock"]
    /\ UNCHANGED <<input, build, phase, cpu, memory, panicked, written, prev, audio>>
    /\ UNCHANGED compilerVars

\* Display::update: let memory = self.memory.lock().unwrap() is granted
DisplayAcquire ==
    /\ sync.at.display = "lock"
    /\ sync.owner = "none"
    /\ sync' = [sync EXCEPT !.owner = "display", !.held = 0, !.at.display = "scan"]
    /\ UNCHANGED <<input, build, phase, cpu, memory, panicked, written, prev, audio>>
    /\ UNCHANGED compilerVars

\* Display::update: get_display_buffer and the loop over every pixel
DisplayScan ==
    /\ sync.at.display = "scan"
    /\ sync.owner = "display"
    /\ sync' = [sync EXCEPT !.held = DISPLAY_SIZE, !.at.display = "present",
                            !.frame = Memory_get_display_buffer(memory)]
    /\ UNCHANGED <<input, build, phase, cpu, memory, panicked, written, prev, audio>>
    /\ UNCHANGED compilerVars

\* A faulty presenter: update returns with the guard still held.
DisplayRelease_keeping ==
    /\ sync.at.display = "present"
    /\ sync.owner = "display"
    /\ sync' = [sync EXCEPT !.held = 0, !.at.display = "idle"]
    /\ UNCHANGED <<input, build, phase, cpu, memory, panicked, written, prev, audio>>
    /\ UNCHANGED compilerVars

\* Display::update: canvas.present(), then the guard goes out of scope
DisplayRelease ==
    /\ sync.at.display = "present"
    /\ sync.owner = "display"
    /\ sync' = [sync EXCEPT !.owner = "none", !.held = 0, !.at.display = "idle"]
    /\ UNCHANGED <<input, build, phase, cpu, memory, panicked, written, prev, audio>>
    /\ UNCHANGED compilerVars

\* the audio thread calls audio.update()
AudioBegin ==
    /\ phase \in {"run", "exit"}
    /\ ~panicked
    /\ sync.at.audio = "idle"
    /\ sync' = [sync EXCEPT !.at.audio = "lock"]
    /\ UNCHANGED <<input, build, phase, cpu, memory, panicked, written, prev, audio>>
    /\ UNCHANGED compilerVars

\* Audio::update: let memory = self.memory.lock().unwrap() is granted
AudioAcquire ==
    /\ sync.at.audio = "lock"
    /\ sync.owner = "none"
    /\ sync' = [sync EXCEPT !.owner = "audio", !.held = 0, !.at.audio = "scan"]
    /\ UNCHANGED <<input, build, phase, cpu, memory, panicked, written, prev, audio>>
    /\ UNCHANGED compilerVars

\* Audio::update: the loop over the AUDIO_SIZE bytes and the sink restart
AudioScan ==
    /\ sync.at.audio = "scan"
    /\ sync.owner = "audio"
    /\ audio' = Audio_update(audio, memory)
    /\ sync' = [sync EXCEPT !.held = AUDIO_SIZE, !.at.audio = "play"]
    /\ UNCHANGED <<input, build, phase, cpu, memory, panicked, written, prev>>
    /\ UNCHANGED compilerVars

\* Audio::update returns and the guard goes out of scope
AudioRelease ==
    /\ sync.at.audio = "play"
    /\ sync.owner = "audio"
    /\ sync' = [sync EXCEPT !.owner = "none", !.held = 0, !.at.audio = "idle"]
    /\ UNCHANGED <<input, build, phase, cpu, memory, panicked, written, prev, audio>>
    /\ UNCHANGED compilerVars

NextThreads ==
    \/ LoadRom
    \/ CpuLock
    \/ CpuAcquire
    \/ CpuFetch
    \/ CpuRead
    \/ CpuWrite
    \/ CpuReturn
    \/ DisplayBegin
    \/ DisplayAcquire
    \/ DisplayScan
    \/ DisplayRelease
    \/ AudioBegin
    \/ AudioAcquire
    \/ AudioScan
    \/ AudioRelease

\* fair scheduling: a thread that can run does, and a lock() that is again
\* and again grantable is granted
SpecThreads ==
    /\ InitThreads
    /\ [][NextThreads]_vars
    /\ WF_vars(LoadRom)
    /\ WF_vars(CpuLock)
    /\ SF_vars(CpuAcquire)
    /\ WF_vars(CpuFetch)
    /\ WF_vars(CpuRead)
    /\ WF_vars(CpuWrite)
    /\ WF_vars(CpuReturn)
    /\ SF_vars(DisplayAcquire)
    /\ WF_vars(DisplayScan)
    /\ WF_vars(DisplayRelease)
    /\ SF_vars(AudioAcquire)
    /\ WF_vars(AudioScan)
    /\ WF_vars(AudioRelease)

(***************************************************************************)
(* Properties.  After a Step, prev holds the opcode that step fetched and  *)
(* the CPU and memory it started from; cpu and memory hold what it left.   *)
(***************************************************************************)
Flag(c, flag) == BitAnd(c.status, flag) # 0
Bit7(value) == BitAnd(value, 128) # 0
Executed(opcode) == prev.opcode = opcode /\ ~panicked
\* the bytes that followed the opcode of the last step
Operand1 == Memory_read(prev.memory, AsU16(prev.cpu.pc + 1))
Operand2 == Memory_read(prev.memory, AsU16(prev.cpu.pc + 2))
OperandAbs == Operand1 + 256 * Operand2
Assembled == phase \in {"compiled", "run", "exit"}
Assembling(source) == input.kind = "asm" /\ input.source = source

\* C1: the source LDA #$42 / STA $80 / HLT assembles to A9 42 85 80 FF, and
\* the run of that image ends halted with memory[0x0080] = 0x42 and A = 0x42.
C1_StoreScenario ==
    Assembling(SrcStore) =>
        /\ Assembled => result.state = "ok" /\ binary = <<169, 66, 133, 128, 255>>
        /\ phase = "exit" =>
               cpu.halted /\ cpu.a = 66 /\ Memory_read(memory, 128) = 66

\* C2: the source LDX #$03 / loop: DEX / BNE loop / HLT assembles to
\* A2 03 CA D0 FD FF, and its run ends halted with X = 0 and Z = 1 after
\* three DEX (six steps before the HLT).
C2_CountdownScenario ==
    Assembling(SrcCountdown) =>
        /\ Assembled => result.state = "ok" /\ binary = <<162, 3, 202, 208, 253, 255>>
        /\ phase = "exit" =>
               cpu.halted /\ cpu.x = 0 /\ Flag(cpu, FLAG_ZERO) /\ cpu.cycles = 8

\* C3: the source BEQ end / NOP / end: HLT assembles to F0 01 EA FF, and
\* its run falls through the branch and halts on the HLT at address 3.
C3_ForwardScenario ==
    Assembling(SrcForward) =>
        /\ Assembled => result.state = "ok" /\ binary = <<240, 1, 234, 255>>
        /\ phase = "exit" =>
               cpu.halted /\ prev.opcode = OP_HLT /\ prev.cpu.pc = 3

\* C4: every opcode byte the assembler emits is one the CPU decodes, so a
\* one-instruction program followed by HLT never halts before its HLT.
C4_EmittedOpcodesDecoded ==
    (input.kind = "asm" /\ input.source \in OneLineSources /\ result.state = "ok") =>
        /\ phase = "compiled" => binary[1] \in DecodedOpcodes
        /\ (phase = "exit" /\ cpu.halted) => prev.opcode = OP_HLT

\* the address read by the load executed in the last step
LoadOpcodes == {OP_LDA_ZP, OP_LDA_ZPX, OP_LDA_ABS}
LoadAddress ==
    CASE prev.opcode = OP_LDA_ZP -> Operand1
      [] prev.opcode = OP_LDA_ZPX -> AsU8(Operand1 + prev.cpu.x)
      [] prev.opcode = OP_LDA_ABS -> OperandAbs

\* C5: at every address written through CPU::write, memory reads back the
\* last byte written there, before and after a display-buffer swap, and a
\* load of such an address puts that byte in A.
C5_WriteThenRead ==
    /\ \A address \in DOMAIN written :
           /\ Memory_read(memory, address) = written[address]
           /\ Memory_read(Memory_swap_display_buffer(memory), address) = written[address]
    /\ \A opcode \in LoadOpcodes :
           (Executed(opcode) /\ LoadAddress \in DOMAIN written) =>
               cpu.a = written[LoadAddress]

\* a byte written to the display region is read back by a later LDA
C5_Witness ==
    /\ Executed(OP_LDA_ABS)
    /\ LoadAddress = DISPLAY_START
    /\ DISPLAY_START \in DOMAIN written
    /\ written[DISPLAY_START] = 255
    /\ cpu.a = 255

\* the byte the last step wrote to its destination register or memory byte
ToA == {OP_LDA_IMM, OP_LDA_ZP, OP_LDA_ZPX, OP_LDA_ABS, OP_TXA, OP_TYA,
        OP_ADC_IMM, OP_SBC_IMM, OP_AND_IMM, OP_ORA_IMM, OP_EOR_IMM}
ToX == {OP_LDX_IMM, OP_TAX, OP_INX, OP_DEX}
ToY == {OP_LDY_IMM, OP_TAY, OP_INY, OP_DEY}
ToMemory == {OP_INC_ZP, OP_DEC_ZP}
Destination ==
    CASE prev.opcode \in ToA -> cpu.a
      [] prev.opcode \in ToX -> cpu.x
      [] prev.opcode \in ToY -> cpu.y
      [] prev.opcode \in ToMemory -> Memory_read(memory, Operand1)

\* C6: after a load, transfer, increment, decrement or ALU instruction,
\* Z = (result = 0) and N = bit 7 of the result written to the destination.
C6_ZeroNegative ==
    \A opcode \in ToA \cup ToX \cup ToY \cup ToMemory :
        Executed(opcode) =>
            /\ Flag(cpu, FLAG_ZERO) = (Destination = 0)
            /\ Flag(cpu, FLAG_NEGATIVE) = Bit7(Destination)

\* INC of a zero-page byte holding 0xFF, with Z clear before, leaves 0 and Z
C6_Witness ==
    /\ Executed(OP_INC_ZP)
    /\ Memory_read(prev.memory, Operand1) = 255
    /\ ~Flag(prev.cpu, FLAG_ZERO)
    /\ Memory_read(memory, Operand1) = 0
    /\ Flag(cpu, FLAG_ZERO) /\ ~Flag(cpu, FLAG_NEGATIVE)

CarryIn == IF Flag(prev.cpu, FLAG_CARRY) THEN 1 ELSE 0

\* C7: ADC leaves A = (A + operand + C) mod 256, C = (A + operand + C > 255),
\* V = ((A ^ result) & (operand ^ result) & 0x80) # 0 and Z, N from the
\* result; 0x7F + 0x01 gives 0x80 with V, N and no C; 0xFF + 0x01 gives C, Z.
C7_Adc ==
    Executed(OP_ADC_IMM) =>
        LET sum == prev.cpu.a + Operand1 + CarryIn
            res == sum % 256
        IN  /\ cpu.a = res
            /\ Flag(cpu, FLAG_CARRY) = (sum > 255)
            /\ Flag(cpu, FLAG_OVERFLOW) =
                   (BitAnd(BitAnd(BitXor(prev.cpu.a, res), BitXor(Operand1, res)), 128) # 0)
            /\ Flag(cpu, FLAG_ZERO) = (res = 0)
            /\ Flag(cpu, FLAG_NEGATIVE) = Bit7(res)
            /\ (prev.cpu.a = 127 /\ Operand1 = 1 /\ CarryIn = 0) =>
                   /\ cpu.a = 128
                   /\ Flag(cpu, FLAG_OVERFLOW) /\ Flag(cpu, FLAG_NEGATIVE)
                   /\ ~Flag(cpu, FLAG_CARRY)
            /\ (prev.cpu.a = 255 /\ Operand1 = 1 /\ CarryIn = 0) =>
                   Flag(cpu, FLAG_CARRY) /\ Flag(cpu, FLAG_ZERO)

\* ADC of 0x7F + 0x01 with the carry set: A = 0x81, V and N set, C clear
C7_Witness ==
    /\ Executed(OP_ADC_IMM)
    /\ prev.cpu.a = 127 /\ Operand1 = 1 /\ CarryIn = 1
    /\ cpu.a = 129
    /\ Flag(cpu, FLAG_OVERFLOW) /\ Flag(cpu, FLAG_NEGATIVE) /\ ~Flag(cpu, FLAG_CARRY)

\* C8: SBC computes A - operand - (1 - C), leaves A = that value mod 256,
\* C = (that value >= 0), V = ((A ^ operand) & (A ^ result) & 0x80) # 0 with
\* the A before the instruction, and Z, N from the new A.
C8_Sbc ==
    Executed(OP_SBC_IMM) =>
        LET diff == prev.cpu.a - Operand1 - (1 - CarryIn)
            res == diff % 256
        IN  /\ cpu.a = res
            /\ Flag(cpu, FLAG_CARRY) = (diff >= 0)
            /\ Flag(cpu, FLAG_OVERFLOW) =
                   (BitAnd(BitAnd(BitXor(prev.cpu.a, Operand1), BitXor(prev.cpu.a, res)), 128) # 0)
            /\ Flag(cpu, FLAG_ZERO) = (cpu.a = 0)
            /\ Flag(cpu, FLAG_NEGATIVE) = Bit7(cpu.a)

\* SBC of 0x80 - 0x01 with the carry clear: A = 0x7E, V and C set
C8_Witness ==
    /\ Executed(OP_SBC_IMM)
    /\ prev.cpu.a = 128 /\ Operand1 = 1 /\ CarryIn = 0
    /\ cpu.a = 126
    /\ Flag(cpu, FLAG_OVERFLOW) /\ Flag(cpu, FLAG_CARRY)
    /\ ~Flag(cpu, FLAG_NEGATIVE) /\ ~Flag(cpu, FLAG_ZERO)

\* the register CMP / CPX / CPY compared in the last step
Compared ==
    CASE prev.opcode = OP_CMP_IMM -> prev.cpu.a
      [] prev.opcode = OP_CPX_IMM -> prev.cpu.x
      [] prev.opcode = OP_CPY_IMM -> prev.cpu.y

\* C9: CMP, CPX and CPY leave C = (register >= operand) and Z, N from
\* (register - operand) mod 256, and leave A, X, Y, SP, V and memory as
\* they were.
C9_Compare ==
    \A opcode \in CompareOpcodes :
        Executed(opcode) =>
            /\ Flag(cpu, FLAG_CARRY) = (Compared >= Operand1)
            /\ Flag(cpu, FLAG_ZERO) = ((Compared - Operand1) % 256 = 0)
            /\ Flag(cpu, FLAG_NEGATIVE) = Bit7((Compared - Operand1) % 256)
            /\ cpu.a = prev.cpu.a /\ cpu.x = prev.cpu.x /\ cpu.y = prev.cpu.y
            /\ cpu.sp = prev.cpu.sp
            /\ Flag(cpu, FLAG_OVERFLOW) = Flag(prev.cpu, FLAG_OVERFLOW)
            /\ memory = prev.memory

\* CMP of A = 0x80 with 0x81 while V is set: C clear, N set, A and V kept
C9_Witness ==
    /\ Executed(OP_CMP_IMM)
    /\ prev.cpu.a = 128 /\ Operand1 = 129 /\ Flag(prev.cpu, FLAG_OVERFLOW)
    /\ ~Flag(cpu, FLAG_CARRY) /\ Flag(cpu, FLAG_NEGATIVE) /\ ~Flag(cpu, FLAG_ZERO)
    /\ cpu.a = 128 /\ Flag(cpu, FLAG_OVERFLOW)

\* C10: a JSR at p completes, stores the high byte of p + 2 at 0x0100 + SP
\* and the low byte below it, and sets PC to its operand; an RTS completes
\* and sets PC to the address it pops, low byte first, plus one.
C10_CallAndReturn ==
    /\ prev.opcode = OP_JSR_ABS =>
           /\ ~panicked
           /\ Memory_read(memory, 256 + prev.cpu.sp) = AsU16(prev.cpu.pc + 2) \div 256
           /\ Memory_read(memory, 256 + ((prev.cpu.sp + 255) % 256))
                  = AsU16(prev.cpu.pc + 2) % 256
           /\ cpu.sp = (prev.cpu.sp + 254) % 256
           /\ cpu.pc = OperandAbs
    /\ prev.opcode = OP_RTS =>
           /\ ~panicked
           /\ cpu.sp = (prev.cpu.sp + 2) % 256
           /\ cpu.pc = AsU16(Memory_read(prev.memory, 256 + ((prev.cpu.sp + 1) % 256))
                             + 256 * Memory_read(prev.memory, 256 + ((prev.cpu.sp + 2) % 256))
                             + 1)

\* C11: each of BEQ, BNE, BCS, BCC, BMI, BPL at address p is taken exactly
\* when its flag matches (Z = 1, Z = 0, C = 1, C = 0, N = 1, N = 0); taken, it
\* leaves PC = (p + 2 + d) mod 65536 with d the operand byte read as a signed
\* number; not taken, PC = p + 2; no register, flag or memory byte changes.
BranchCondition(opcode, c) ==
    CASE opcode = OP_BEQ -> Flag(c, FLAG_ZERO)
      [] opcode = OP_BNE -> ~Flag(c, FLAG_ZERO)
      [] opcode = OP_BCS -> Flag(c, FLAG_CARRY)
      [] opcode = OP_BCC -> ~Flag(c, FLAG_CARRY)
      [] opcode = OP_BMI -> Flag(c, FLAG_NEGATIVE)
      [] opcode = OP_BPL -> ~Flag(c, FLAG_NEGATIVE)

SameRegisters ==
    /\ cpu.a = prev.cpu.a
    /\ cpu.x = prev.cpu.x
    /\ cpu.y = prev.cpu.y
    /\ cpu.sp = prev.cpu.sp
    /\ cpu.status = prev.cpu.status

C11_Branches ==
    \A opcode \in BranchOpcodes :
        Executed(opcode) =>
            /\ cpu.pc = IF BranchCondition(opcode, prev.cpu)
                        THEN (prev.cpu.pc + 2 + AsI8(Operand1) + 65536) % 65536
                        ELSE (prev.cpu.pc + 2) % 65536
            /\ SameRegisters
            /\ memory = prev.memory
            /\ cpu.halted = prev.cpu.halted

\* a taken BMI at address 10 with displacement -128 lands below 0x0000, at 0xFF8C
C11_Witness ==
    /\ Executed(OP_BMI)
    /\ Flag(prev.cpu, FLAG_NEGATIVE)
    /\ Operand1 = 128
    /\ prev.cpu.pc = 10
    /\ cpu.pc = 65420

\* C12: halted is terminal under step(): a step() on a halted CPU returns
\* false and changes nothing (A, X, Y, PC, SP, status, cycles and memory),
\* and halted stays true until reset() is called.
C12_HaltedIsTerminal ==
    (prev.call = "step" /\ prev.cpu.halted) =>
        /\ ~prev.returned
        /\ ~panicked
        /\ cpu = prev.cpu
        /\ cpu.halted
        /\ memory = prev.memory

\* a second step() on a CPU that HLT halted with registers, flags and memory
\* changed by the run
C12_Witness ==
    /\ prev.call = "step"
    /\ prev.before = "step"
    /\ prev.cpu.halted
    /\ prev.cpu.status # 0
    /\ prev.cpu.cycles > 1
    /\ prev.memory.data # Memory_load_program(Memory_new, input.rom).data
    /\ cpu.halted

\* C13: from any CPU state, Halted included, reset() zeros A, X, Y and the
\* status flags, sets SP = 0xFF and PC = 0x0000, clears halted and leaves
\* memory unchanged; the step() after a reset fetches the opcode at 0x0000.
C13_Reset ==
    /\ prev.call = "reset" =>
           /\ cpu.a = 0 /\ cpu.x = 0 /\ cpu.y = 0
           /\ cpu.status = 0
           /\ cpu.sp = 255
           /\ cpu.pc = 0
           /\ ~cpu.halted
           /\ memory = prev.memory
    /\ (prev.call = "step" /\ prev.before = "reset") =>
           /\ prev.cpu.pc = 0
           /\ prev.opcode = Memory_read(prev.memory, 0)

\* reset() of a halted CPU whose registers, flags, SP and memory the run changed
C13_Witness ==
    /\ prev.call = "reset"
    /\ prev.cpu.halted
    /\ prev.cpu.a # 0
    /\ prev.cpu.status # 0
    /\ prev.cpu.pc # 0
    /\ prev.memory.data # Memory_load_program(Memory_new, input.rom).data
    /\ ~cpu.halted

\* C14: executing a byte that is no opcode, at any address 0x0000..0xFFFF,
\* halts the CPU (step returns false) without aborting the host process and
\* without modifying A, X, Y, SP, the status flags or memory.
C14_UnknownOpcodeHalts ==
    (prev.call = "step" /\ prev.opcode # -1 /\ prev.opcode \notin DecodedOpcodes) =>
        /\ ~panicked
        /\ cpu.halted
        /\ ~prev.returned
        /\ SameRegisters
        /\ memory = prev.memory

\* C15: DBG (0xDE) takes a 16-bit little-endian address from the two bytes
\* after the opcode, so PC advances by 3, and it changes no register, flag
\* or memory byte.
C15_Dbg ==
    Executed(OP_DBG) =>
        /\ cpu.pc = (prev.cpu.pc + 3) % 65536
        /\ SameRegisters
        /\ memory = prev.memory

\* C16: the assembler encodes DBG <addr> as 0xDE followed by the address as
\* two bytes, low byte first, for a one-byte and for a two-byte address, and
\* pass one counts three bytes for it.
C16_DbgEncoding ==
    /\ Assembling(SrcDbgZp) =>
           /\ (phase = "pass1" /\ line_num = 1) => current_address = 3
           /\ Assembled => (result.state = "ok" /\ binary = <<222, 16, 0, 255>>)
    /\ Assembling(SrcDbgAbs) =>
           /\ (phase = "pass1" /\ line_num = 1) => current_address = 3
           /\ Assembled => (result.state = "ok" /\ binary = <<222, 52, 18, 255>>)

\* C17: SND $C3 assembles to 42 C3; SND with payload p writes p to 0xFC00 | p
\* and to no other address, advances PC by 2 and leaves registers and flags
\* alone; the run of SND $C3 leaves memory[0xFCC3] = 0xC3; SND without an
\* operand or with a # operand is rejected with a Line <n>: error.
C17_Snd ==
    /\ Assembling(SrcSnd) =>
           /\ Assembled => (result.state = "ok" /\ binary = <<66, 195, 255>>)
           /\ phase = "exit" => (cpu.halted /\ Memory_read(memory, 64707) = 195)
    /\ Executed(OP_SND) =>
           /\ cpu.pc = (prev.cpu.pc + 2) % 65536
           /\ SameRegisters
           /\ Memory_read(memory, 64512 + Operand1) = Operand1
           /\ \A address \in (DOMAIN memory.data \cup DOMAIN prev.memory.data)
                                \ {64512 + Operand1} :
                  Memory_read(memory, address) = Memory_read(prev.memory, address)
           /\ memory.display_buffer = prev.memory.display_buffer
    /\ \A source \in {SrcSndMissing, SrcSndImmediate} :
           (Assembling(source) /\ Assembled) =>
               (result.state = "err" /\ result.err.line = 1)

\* the SND of the assembled SND $C3 has just stored 0xC3 at 0xFCC3
C17_Witness ==
    /\ Assembling(SrcSnd)
    /\ Executed(OP_SND)
    /\ Operand1 = 195
    /\ Memory_read(prev.memory, 64707) = 0
    /\ Memory_read(memory, 64707) = 195

\* C18: every write that changes a byte of the audio region starts or
\* restarts the voice: in every interleaving of CPU writes and watcher polls,
\* a change of the byte at offset i to v is followed by a poll in which the
\* watcher finds <<i, v>>, sets channel v >> 6 to note v & 0x3F and restarts
\* playback.
AudioOffsets == {0} \cup AudioNotes
AudioChanged(i, v) ==
    /\ prev.call = "step"
    /\ Memory_read(memory, AUDIO_START + i) = v
    /\ Memory_read(prev.memory, AUDIO_START + i) # v
C18_EveryChangeHeard ==
    \A i \in AudioOffsets : \A v \in AudioNotes \cup {0} :
        AudioChanged(i, v) ~> (<<i, v>> \in audio.handled)

\* C19: a branch whose displacement target - (address of branch + 2) lies
\* outside [-128, 127] is rejected with an error and no binary; +127 and
\* -128 are accepted and encoded as 0x7F and 0x80.
C19_BranchRange ==
    /\ \A source \in {SrcBranchTooFar, SrcBranchTooFarBack, SrcBranchAddress} :
           (Assembling(source) /\ Assembled) => result.state = "err"
    /\ (Assembling(SrcBranchMax) /\ Assembled) =>
           (result.state = "ok" /\ binary[1] = OP_BEQ /\ binary[2] = 127)
    /\ (Assembling(SrcBranchMin) /\ Assembled) =>
           (result.state = "ok" /\ binary[127] = OP_BEQ /\ binary[128] = 128)

\* C20: when an operand references a label defined nowhere, compile returns
\* an error whose message names that label, and no binary.
C20_UndefinedLabel ==
    \A mn \in LabelMnemonics :
        (Assembling(SrcUndefined(mn)) /\ Assembled) =>
            (result.state = "err" /\ result.err.arg = Nowhere)

\* C21: every error the assembler returns is one message prefixed with
\* Line <n>:, n being the 1-based number of a line of the source.
C21_ErrorsNameTheirLine ==
    (Assembled /\ result.state = "err") =>
        /\ result.err.line >= 1
        /\ result.err.line <= Len(input.source)

\* C22: zero-page versus absolute is decided by the text of a hex operand,
\* the same way in both passes: one or two hex digits give a two-byte
\* zero-page instruction, three or four a three-byte absolute one; LDA $00FF
\* assembles to AD FF 00 and LDA $FF to A5 FF.
C22_WidthByText ==
    /\ Assembling(SrcLdaZp) =>
           /\ (phase = "pass1" /\ line_num = 1) => current_address = 2
           /\ Assembled => (result.state = "ok" /\ binary = <<165, 255, 255>>)
    /\ Assembling(SrcLdaWide) =>
           /\ (phase = "pass1" /\ line_num = 1) => current_address = 3
           /\ Assembled => (result.state = "ok" /\ binary = <<173, 255, 0, 255>>)

\* C23: a plain decimal number is a numeric literal: as a direct operand a
\* value <= 255 selects zero-page and a larger one absolute (LDA 16 assembles
\* to A5 10), and it is never treated as a label reference.
C23_DecimalOperand ==
    /\ (Assembling(SrcLdaDecimal) \/ Assembling(SrcLdaDecimalWide)) =>
           unresolved_jumps = <<>>
    /\ (Assembling(SrcLdaDecimal) /\ Assembled) =>
           (result.state = "ok" /\ binary = <<165, 16, 255>>)
    /\ (Assembling(SrcLdaDecimalWide) /\ Assembled) =>
           (result.state = "ok" /\ binary = <<173, 44, 1, 255>>)

\* the combinations of mnemonic and operand that no opcode encodes
Mn(a, b, c) == <<a, b, c>>
IllegalLines ==
    { Line(mn, <<"#","$","1","0">>) :
          mn \in { Mn("S","T","A"), Mn("S","T","X"), Mn("S","T","Y"),
                   Mn("I","N","C"), Mn("D","E","C") } }
    \cup { Line(Mn("S","T","X"), <<"$","1","2","3","4",",","Y">>),
           Line(Mn("S","T","Y"), <<"$","1","2","3","4",",","X">>),
           Line(Mn("L","D","X"), <<"$","1","0",",","X">>),
           Line(Mn("L","D","X"), <<"$","1","2","3","4",",","X">>),
           Line(Mn("L","D","Y"), <<"$","1","0",",","Y">>),
           Line(Mn("L","D","Y"), <<"$","1","2","3","4",",","Y">>) }
    \cup (OperandMnemonics \cup JumpMnemonics)

\* C24: each illegal combination of mnemonic and operand (immediate with
\* STA, STX, STY, INC, DEC; STX absolute,Y; STY absolute,X; LDX indexed by X;
\* LDY indexed by Y; an operand-taking mnemonic without operand) is rejected
\* with an error naming line 1 of a two-line source, and no binary results.
C24_IllegalCombinations ==
    (input.kind = "asm" /\ Len(input.source) = 2 /\ input.source[1] \in IllegalLines
        /\ Assembled) => result.state = "err" /\ result.err.line = 1
\* C25: load_program never fails; it copies the first min(length, 32768)
\* bytes of its input to 0x0000 upward and leaves every other byte of the
\* store, and the display double buffer, as they were before the call.
C25_LoadProgram ==
    prev.call = "load" =>
        /\ ~panicked /\ phase = "run"
        /\ \A a \in 0..(MEMORY_SIZE - 1) :
               Memory_read(memory, a) =
                   IF a < Len(input.rom) /\ a < ROM_SIZE THEN input.rom[a + 1]
                   ELSE Memory_read(prev.memory, a)
        /\ memory.display_buffer = prev.memory.display_buffer

\* an image longer than the ROM region was loaded over a store holding bytes
\* at 0x0001 and at 0x8000: the first is replaced, the second is kept
C25_Witness ==
    /\ prev.call = "load"
    /\ Len(input.rom) > ROM_SIZE
    /\ input.rom[ROM_SIZE + 1] # 0
    /\ Memory_read(prev.memory, 1) = LoadByte
    /\ Memory_read(memory, 1) = 0
    /\ Memory_read(memory, ROM_SIZE - 1) = input.rom[ROM_SIZE]
    /\ Memory_read(memory, ROM_SIZE) = LoadByte
\* C26: the process ends with status 0 when the program halts normally, and
\* with a non-zero status when assembly fails or when neither --rom nor --asm
\* is given; after an assembly error nothing is loaded and the CPU has
\* executed no instruction.
C26_ExitStatus ==
    phase = "exit" =>
        /\ (cpu.halted /\ ~panicked) => ExitCode = 0
        /\ result.state = "err" =>
               (ExitCode # 0 /\ memory = Memory_new /\ cpu = CPU_new)
        /\ input.kind = "none" => ExitCode # 0
\* the label table is written in pass one only
LabelsFrozen == [][phase # "pass1" => labels' = labels]_vars

\* C27: when every label a source refers to is defined (the scenario and the
\* branch sources refer to declared labels and to numbers only), the
\* unresolved list is empty at the end of pass two; when it is not empty,
\* compile returns an error; and compile returns Ok exactly when no entry
\* was ever appended to the list (prev.appended counts the entries pass two
\* appended).
C27_NoPlaceholders ==
    /\ (input.kind = "asm" /\ input.source \in ScenarioSources \cup BranchSources
            /\ phase = "resolve") => unresolved_jumps = <<>>
    /\ (input.kind = "asm" /\ Assembled) =>
           (result.state = "ok" <=> prev.appended = 0)
\* C28: in pass two the current address given to the encoder of each
\* instruction is the number of bytes emitted before it.
C28_RunningOffset == phase = "pass2" => current_address = Len(binary)

\* the branches of the sources: the source, the output offset b of the branch
\* and the address t its operand names
BranchCases ==
    { <<SrcForwardSplit, 0, 3>>, <<SrcBranchMax, 0, 129>>, <<SrcBranchNear, 0, 4>>,
      <<SrcCountdownSplit, 3, 2>>, <<SrcBranchMin, 126, 0>> }

\* C29: a branch emitted at offset b whose operand is a defined label or a $
\* address t, before or after it, has the displacement byte
\* (t - (b + 2)) mod 256, and the branch, when taken, sets PC to t.
C29_Displacement ==
    \A case \in BranchCases :
        Assembling(case[1]) =>
            /\ Assembled =>
                   /\ result.state = "ok"
                   /\ binary[case[2] + 1] \in BranchOpcodes
                   /\ binary[case[2] + 2] = (case[3] - (case[2] + 2)) % 256
            /\ (\E op \in BranchOpcodes :
                       Executed(op) /\ prev.cpu.pc = case[2]
                           /\ BranchCondition(op, prev.cpu)) => cpu.pc = case[3]
\* the address 0x0100 + SP of the stack slot SP selects
StackSlot(sp) == 256 + sp

\* C30: push stores its byte at 0x0100 + SP and then decrements SP; pop
\* increments SP and then returns the byte at 0x0100 + SP; SP wraps modulo
\* 256; every access is inside 0x0100..0x01FF; a pop right after a push
\* returns the pushed byte and restores SP.
C30_Stack ==
    /\ prev.call = "push" =>
           /\ Memory_read(memory, StackSlot(prev.cpu.sp)) = prev.pushed
           /\ \A a \in 0..(MEMORY_SIZE - 1) :
                  a # StackSlot(prev.cpu.sp) =>
                      Memory_read(memory, a) = Memory_read(prev.memory, a)
           /\ cpu.sp = IF prev.cpu.sp = 0 THEN 255 ELSE prev.cpu.sp - 1
           /\ cpu = [prev.cpu EXCEPT !.sp = cpu.sp]
    /\ prev.call = "pop" =>
           /\ cpu.sp = IF prev.cpu.sp = 255 THEN 0 ELSE prev.cpu.sp + 1
           /\ prev.value = Memory_read(prev.memory, StackSlot(cpu.sp))
           /\ cpu = [prev.cpu EXCEPT !.sp = cpu.sp]
           /\ memory = prev.memory
    /\ DOMAIN written \subseteq 256..511
    /\ (prev.call = "pop" /\ prev.before = "push") =>
           (prev.value = prev.pushed /\ cpu.sp = prev.sp)

\* a pop on the fresh CPU took SP from 0xFF to 0x00, a push then stored at
\* 0x0100 and took SP to 0xFF, and the next pop returned that byte
C30_Witness ==
    /\ prev.call = "pop" /\ prev.before = "push"
    /\ prev.sp = 0 /\ prev.cpu.sp = 255 /\ cpu.sp = 0
    /\ prev.value = 195
    /\ Memory_read(memory, 256) = 195
\* C31: PC wraps modulo 65536 wherever it is computed (fetch at 0xFFFF, taken
\* branches, JSR's PC - 1, RTS's + 1, the unknown-opcode report of PC - 1),
\* and no step aborts because of 16-bit PC arithmetic.
C31_PcWraps ==
    input.kind = "rom" =>
        /\ ~panicked
        /\ cpu.pc \in 0..(U16 - 1)
        /\ (/\ prev.call = "step"
            /\ prev.opcode = OP_RTS
            /\ Memory_read(prev.memory, StackSlot((prev.cpu.sp + 1) % U8)) = 255
            /\ Memory_read(prev.memory, StackSlot((prev.cpu.sp + 2) % U8)) = 255)
               => cpu.pc = 0
\* C32: a step() taken while not halted fetches the opcode at PC, adds exactly
\* 1 to the cycle counter whatever the opcode, and returns true exactly when
\* the CPU is not halted afterwards, so the step executing HLT returns false;
\* over step() calls the counter never decreases.
C32_StepCounts ==
    /\ (prev.call = "step" /\ ~prev.cpu.halted) =>
           /\ ~panicked
           /\ prev.opcode = Memory_read(prev.memory, prev.cpu.pc)
           /\ cpu.cycles = prev.cpu.cycles + 1
           /\ prev.returned <=> ~cpu.halted
           /\ prev.opcode = OP_HLT => ~prev.returned
    /\ prev.call = "step" => cpu.cycles >= prev.cpu.cycles
\* C36: the CPU loop goes on exactly while step() returns true and executes
\* nothing after the first false; halted is set only by HLT and by an opcode
\* outside the decode table, so the run ends only there, and a memory of
\* zeros (BRK everywhere) never halts.
C36_RunsUntilHalt ==
    input.kind = "rom" =>
        /\ cpu.halted =>
               /\ prev.call = "step"
               /\ prev.opcode = OP_HLT \/ prev.opcode \notin DecodedOpcodes
               /\ ~prev.returned
               /\ phase = "exit"
        /\ phase = "exit" => cpu.halted
        /\ (phase = "run" /\ prev.call = "step") => prev.returned
        /\ input.rom = RomEmpty => (~cpu.halted /\ phase # "exit")
\* C37: for an accepted source the bytes pass one counted (prev.sized, the
\* counter at the end of pass one) are the bytes pass two emitted, so a label
\* holds the output offset of the first byte emitted after it.
C37_SizesAgree ==
    (input.kind = "asm" /\ Assembled /\ result.state = "ok") =>
        /\ prev.sized = Len(binary)
        /\ Assembling(SrcStxLabel) => labels[<<"t","a","b">>] = Len(binary) - 1
\* the offsets at which the double buffer or the display region of the
\* primary store holds a non-zero byte
DisplayOffsets ==
    DOMAIN memory.display_buffer
        \cup { a - DISPLAY_START :
                   a \in { b \in DOMAIN memory.data :
                              b >= DISPLAY_START /\ b < DISPLAY_START + DISPLAY_SIZE } }

\* C38: the double buffer equals the display region of the primary store
\* (both are zero outside DisplayOffsets), so swap_display_buffer changes no
\* byte, and the display bytes are those the CPU wrote last.
C38_Mirror ==
    /\ \A i \in DisplayOffsets :
           ArrayGet(memory.display_buffer, i) = ArrayGet(memory.data, DISPLAY_START + i)
    /\ Memory_swap_display_buffer(memory) = memory
    /\ \A a \in DOMAIN written :
           (a >= DISPLAY_START /\ a < DISPLAY_START + DISPLAY_SIZE) =>
               /\ ArrayGet(memory.display_buffer, a - DISPLAY_START) = written[a]
               /\ ArrayGet(Memory_get_display_buffer(memory), a - DISPLAY_START)
                      = written[a]

\* the CPU has stored a non-zero byte at 0xF000 and both copies hold it
C38_Witness ==
    /\ DISPLAY_START \in DOMAIN written
    /\ written[DISPLAY_START] # 0
    /\ ArrayGet(memory.display_buffer, 0) = written[DISPLAY_START]
    /\ Memory_read(memory, DISPLAY_START) = written[DISPLAY_START]
\* the opcodes of the stores, jumps, calls, branches, NOP, BRK, HLT, DBG, SND
FrameOpcodes ==
    {OP_STA_ZP, OP_STA_ZPX, OP_STA_ABS, OP_STX_ZP, OP_STY_ZP, OP_JMP_ABS,
     OP_JSR_ABS, OP_RTS, OP_NOP, OP_BRK, OP_HLT, OP_DBG, OP_SND}
        \cup BranchOpcodes

\* C39: stores, JMP, JSR, RTS, branches, NOP, BRK, HLT, DBG and SND leave the
\* flags and A, X, Y as they were; NOP changes PC (by 1) and the cycle counter
\* only, BRK changes PC (by 2) and the cycle counter only.
C39_Frame ==
    /\ \A opcode \in FrameOpcodes :
           Executed(opcode) =>
               /\ cpu.status = prev.cpu.status
               /\ cpu.a = prev.cpu.a
               /\ cpu.x = prev.cpu.x
               /\ cpu.y = prev.cpu.y
    /\ Executed(OP_NOP) =>
           /\ cpu = [prev.cpu EXCEPT !.pc = (@ + 1) % U16, !.cycles = @ + 1]
           /\ memory = prev.memory
    /\ Executed(OP_BRK) =>
           /\ cpu = [prev.cpu EXCEPT !.pc = (@ + 2) % U16, !.cycles = @ + 1]
           /\ memory = prev.memory

\* BRK executed with V and C set and A, X, Y loaded: PC has passed the
\* padding byte and nothing else has changed
C39_Witness ==
    /\ Executed(OP_BRK)
    /\ Flag(prev.cpu, FLAG_OVERFLOW) /\ Flag(prev.cpu, FLAG_CARRY)
    /\ prev.cpu.a = 129 /\ prev.cpu.x = 3 /\ prev.cpu.y = 5
    /\ cpu.pc = prev.cpu.pc + 2
    /\ cpu.status = prev.cpu.status
\* C40: while a source whose output fits in ROM is assembled, the address
\* arithmetic stays within 16 bits: assembly does not abort on overflow, and
\* the counter of pass two has not wrapped (a sum of output lengths that has
\* not wrapped is at least the current output length).
C40_CounterFits ==
    (input.kind = "asm" /\ Len(binary) <= ROM_SIZE) =>
        /\ ~panicked
        /\ phase = "pass2" => current_address >= Len(binary)

\* C33: whichever thread owns the memory lock (the CPU thread, the presenter
\* or the audio watcher) has made at most one read or write of memory since
\* the lock was granted to it.
C33_LockPerAccess == sync.owner # "none" => sync.held <= 1

\* memory after the first n writes of log, in order
RECURSIVE Replay(_, _, _)
Replay(mem, log, n) ==
    IF n = 0 THEN mem
    ELSE Memory_write(Replay(mem, log, n - 1), log[n][1], log[n][2])

\* the CPU thread is inside step(), past the fetch of opcode
InStep(opcode) ==
    /\ sync.at.cpu \in {"lock_read", "read", "lock_write", "write", "return"}
    /\ sync.opcode = opcode

\* C34: whenever another thread can take the memory lock, memory is what
\* the step in progress started from plus its first writes in program
\* order; inside a JSR the low return byte (at 0x0100 + SP - 1) has changed
\* only if the high byte (at 0x0100 + SP) holds the high half of the return
\* address (PC + 2); and every byte written is what memory, a frame drawn
\* by the presenter and a buffer scanned by the audio watcher hold at its
\* address once the write has released the lock.
C34_ProgramOrder ==
    /\ sync.opcode # -1 => memory = Replay(sync.start, sync.next.log, sync.issued)
    /\ (InStep(OP_JSR_ABS) /\ ~sync.next.panicked) =>
           (Memory_read(memory, StackSlot((cpu.sp - 1) % U8))
                # Memory_read(sync.start, StackSlot((cpu.sp - 1) % U8))
            => Memory_read(memory, StackSlot(cpu.sp)) = (cpu.pc + 2) \div 256)
    /\ \A a \in DOMAIN written :
           /\ Memory_read(memory, a) = written[a]
           /\ (/\ sync.at.display = "present"
               /\ a >= DISPLAY_START
               /\ a < DISPLAY_START + DISPLAY_SIZE)
                  => ArrayGet(sync.frame, a - DISPLAY_START) = written[a]
           /\ (/\ sync.at.audio = "play"
               /\ a >= AUDIO_START
               /\ a < AUDIO_START + AUDIO_SIZE)
                  => ArrayGet(audio.last_buffer, a - AUDIO_START) = written[a]

\* the presenter holds the lock between the two pushes of a JSR: the high
\* return byte has replaced the 129 stored at 0x01FF, the low byte has not
\* yet replaced the 129 at 0x01FE
C34_Witness ==
    /\ InStep(OP_JSR_ABS)
    /\ sync.issued = 1
    /\ sync.owner = "display"
    /\ sync.at.display = "present"
    /\ Memory_read(sync.start, StackSlot(cpu.sp)) = 129
    /\ Memory_read(memory, StackSlot(cpu.sp)) = 0
    /\ Memory_read(memory, StackSlot((cpu.sp - 1) % U8)) = 129

Threads == {"cpu", "display", "audio"}

\* thread t is blocked in self.memory.lock()
Requesting(t) ==
    IF t = "cpu" THEN sync.at.cpu \in {"lock_fetch", "lock_read", "lock_write"}
    ELSE sync.at[t] = "lock"

\* the memory lock is requested by no thread that owns it, it is requested
\* and owned by the CPU thread only under the CPU lock, and the CPU lock is
\* never owned by another thread
LockOrder ==
    /\ \A t \in Threads : Requesting(t) => sync.owner # t
    /\ (Requesting("cpu") \/ sync.owner = "cpu") => sync.cpu_owner = "cpu"
    /\ sync.cpu_owner \in {"none", "cpu"}
    /\ sync.cpu_owner = "cpu" => sync.at.cpu \notin {"idle", "done"}

\* C35: in every interleaving of the CPU thread, the presenter and the
\* audio watcher under fair scheduling, no thread requests the memory lock
\* while it owns it, the CPU thread takes the memory lock only while it
\* owns the CPU lock, the memory lock changes owner only by being free in
\* between, the CPU thread about to run a step gets the CPU lock, and every
\* thread that requests the memory lock comes to own it.
C35_NoDeadlock ==
    /\ []LockOrder
    /\ [][sync'.owner # sync.owner => (sync.owner = "none" \/ sync'.owner = "none")]_vars
    /\ (sync.at.cpu = "idle" /\ phase = "run" /\ cpu.cycles < MaxSteps)
           ~> (sync.cpu_owner = "cpu")
    /\ \A t \in Threads : Requesting(t) ~> (sync.owner = t)

\* the CPU thread, owning the CPU lock, is blocked in the lock() of a write
\* while the presenter owns the memory lock and the audio watcher is
\* blocked as well
C35_Witness ==
    /\ sync.at.cpu = "lock_write"
    /\ sync.cpu_owner = "cpu"
    /\ sync.owner = "display"
    /\ sync.at.audio = "lock"

====
